---- MODULE Spec2Model ----
(***************************************************************************)
(* cf-switch: the reconciler that keeps one Cloudflare WAF custom rule     *)
(* (found by its description marker) in the configured state, the remote  *)
(* rule API it talks to, and the callers of its public operations.         *)
(*                                                                         *)
(* A text is a sequence of one-character strings, so that splitting,       *)
(* trimming, lower-casing and sorting are computed as the code computes    *)
(* them; Str turns a text into a TLA+ string.                              *)
(***************************************************************************)
EXTENDS Integers, Sequences, FiniteSets, TLC

(***************************************************************************)
(* Bounds of the model.                                                    *)
(***************************************************************************)
\* API calls made over a run, by all callers together
MaxCalls == 2
\* ticks of the periodic loop
MaxTicks == 2
\* API calls and ticks over a run, together
MaxOps == 3
\* remote calls that the remote side answers with a failure
MaxFaults == 1
\* length of the texts given to FlexibleInt.UnmarshalJSON
MaxJSONLen == 4
\* length of the texts given to ParseHostnames
MaxTextLen == 5
\* length of the lists given to BuildExpression
MaxHosts == 3
\* rules in a ruleset given to FindRuleByDescription
MaxRules == 3

(***************************************************************************)
(* Program constants.                                                      *)
(***************************************************************************)
RuleDescription == "cf-switch:global"
BlockAction == "block"
StatusOK == 200
StatusNotFound == 404
StatusUnauthorized == 401
StatusTooManyRequests == 429
StatusMovedPermanently == 301
StatusBadRequest == 400
StatusMethodNotAllowed == 405
StatusInternalServerError == 500
\* internal/cloudflare: attempts of one request, ceiling of the hinted wait
maxRetries == 3
maxRetryWaitSeconds == 60

(***************************************************************************)
(* Text helpers (strings.ToLower, strings.TrimSpace, strings.Split,        *)
(* sort.Strings, fmt.Sprintf("%v", []string)).                             *)
(***************************************************************************)
RECURSIVE Str(_)
Str(t) == IF t = <<>> THEN "" ELSE Head(t) \o Str(Tail(t))

\* byte value of the characters the model uses
Ord(c) ==
    CASE c = " " -> 32
      [] c = "," -> 44
      [] c = "A" -> 65
      [] c = "B" -> 66
      [] c = "[" -> 91
      [] c = "]" -> 93
      [] c = "a" -> 97
      [] c = "b" -> 98
      [] OTHER -> 0

LowerChar(c) ==
    CASE c = "A" -> "a"
      [] c = "B" -> "b"
      [] OTHER -> c

ToLower(t) == [i \in 1..Len(t) |-> LowerChar(t[i])]

RECURSIVE TrimLeft(_)
TrimLeft(t) == IF t # <<>> /\ Head(t) = " " THEN TrimLeft(Tail(t)) ELSE t

RECURSIVE TrimRight(_)
TrimRight(t) ==
    IF t # <<>> /\ t[Len(t)] = " " THEN TrimRight(SubSeq(t, 1, Len(t) - 1)) ELSE t

TrimSpace(t) == TrimRight(TrimLeft(t))

Last(s) == s[Len(s)]

DigitValue(c) ==
    CASE c = "0" -> 0 [] c = "1" -> 1 [] c = "2" -> 2 [] c = "3" -> 3
      [] c = "4" -> 4 [] c = "5" -> 5 [] c = "6" -> 6 [] c = "7" -> 7
      [] c = "8" -> 8 [] c = "9" -> 9 [] OTHER -> -1

RECURSIVE Digits(_)
Digits(t) ==
    IF t = <<>> THEN 0
    ELSE Digits(SubSeq(t, 1, Len(t) - 1)) * 10 + DigitValue(Last(t))

\* strconv.Atoi: an optional sign and one or more decimal digits
Atoi(t) ==
    LET signed == t # <<>> /\ Head(t) \in {"+", "-"}
        digits == IF signed THEN Tail(t) ELSE t
    IN  IF digits = <<>> \/ \E i \in 1..Len(digits) : DigitValue(digits[i]) < 0
        THEN [ok |-> FALSE, n |-> 0]
        ELSE [ok |-> TRUE,
              n |-> IF signed /\ Head(t) = "-" THEN -Digits(digits) ELSE Digits(digits)]

\* strings.Split(t, ","): the segments between commas, empty ones included
RECURSIVE SplitComma(_, _)
SplitComma(t, cur) ==
    IF t = <<>> THEN <<cur>>
    ELSE IF Head(t) = "," THEN <<cur>> \o SplitComma(Tail(t), <<>>)
    ELSE SplitComma(Tail(t), Append(cur, Head(t)))

\* byte-wise s < t
RECURSIVE TextLess(_, _)
TextLess(s, t) ==
    IF t = <<>> THEN FALSE
    ELSE IF s = <<>> THEN TRUE
    ELSE IF Ord(Head(s)) # Ord(Head(t)) THEN Ord(Head(s)) < Ord(Head(t))
    ELSE TextLess(Tail(s), Tail(t))

RECURSIVE Insert(_, _)
Insert(x, l) ==
    IF l = <<>> THEN <<x>>
    ELSE IF TextLess(x, Head(l)) THEN <<x>> \o l
    ELSE <<Head(l)>> \o Insert(x, Tail(l))

RECURSIVE SortStrings(_)
SortStrings(l) == IF l = <<>> THEN <<>> ELSE Insert(Head(l), SortStrings(Tail(l)))

RECURSIVE JoinSpace(_)
JoinSpace(l) ==
    IF l = <<>> THEN <<>>
    ELSE IF Len(l) = 1 THEN Head(l)
    ELSE Head(l) \o <<" ">> \o JoinSpace(Tail(l))

\* fmt.Sprintf("%v", hostnames) of a []string: "[h1 h2 ...]"
SprintfV(hostnames) == <<"[">> \o JoinSpace(hostnames) \o <<"]">>

(***************************************************************************)
(* pkg/types: ParseHostnames and BuildExpression.                          *)
(***************************************************************************)
RECURSIVE ParseLoop(_, _)
ParseLoop(segs, result) ==
    IF segs = <<>> THEN result
    ELSE LET hostname == TrimSpace(ToLower(Head(segs)))
         IN  IF hostname # <<>> /\ \A i \in 1..Len(result) : result[i] # hostname
             THEN ParseLoop(Tail(segs), Append(result, hostname))
             ELSE ParseLoop(Tail(segs), result)

\* mutant: the result is left in the order of the input
ParseHostnamesUnsorted(hostnames) ==
    IF hostnames = <<>> THEN <<>>
    ELSE ParseLoop(SplitComma(hostnames, <<>>), <<>>)

ParseHostnames(hostnames) ==
    IF hostnames = <<>> THEN <<>>
    ELSE SortStrings(ParseLoop(SplitComma(hostnames, <<>>), <<>>))

RECURSIVE JoinQuoted(_)
JoinQuoted(l) ==
    IF l = <<>> THEN ""
    ELSE IF Len(l) = 1 THEN "\"" \o Str(Head(l)) \o "\""
    ELSE "\"" \o Str(Head(l)) \o "\" " \o JoinQuoted(Tail(l))

\* mutant: the hostnames are sorted first
BuildExpressionSorted(hostnames) ==
    IF Len(hostnames) = 0 THEN "false"
    ELSE "http.host in {" \o JoinQuoted(SortStrings(hostnames)) \o "}"

BuildExpression(hostnames) ==
    IF Len(hostnames) = 0 THEN "false"
    ELSE "http.host in {" \o JoinQuoted(hostnames) \o "}"

(***************************************************************************)
(* Values.                                                                 *)
(***************************************************************************)
Main == "main"
Loop == "loop"
Callers == {"c1", "c2"}
Passers == {Main, Loop}
Procs == Passers \cup Callers

\* a nil *types.Rule / *types.CloudflareRule / *types.CloudflareRuleset
NilRule == [isNil |-> TRUE]
NilRuleset == [isNil |-> TRUE]
NoRequest == [op |-> "none"]
NoResponse == [status |-> 0]
NoError == ""

\* entries of the error list of an envelope the remote side rejects a request with
AuthenticationError == [code |-> 10000, message |-> "Authentication error"]

\* identifiers the remote side hands out
RulesetIDs == <<"rs1", "rs2">>
RuleIDs == <<"r1", "r2", "r3">>

HostA == <<"a">>
HostB == <<"b">>

\* values of DEST_HOSTNAMES the process is started with
ConfigEnvs == { <<"b", ",", " ", "A">> }

\* hostname lists passed to UpdateHosts
HostInputs == { <<>>, <<HostB>> }

CloudflareRule(id, expression, description, enabled, version) ==
    [ID |-> id, Action |-> BlockAction, Expression |-> expression,
     Description |-> description, Enabled |-> enabled, Version |-> version]

\* rulesets the remote side can hold when the process starts: without the
\* managed rule, with it as configured, and with it from another configuration
InitialRulesets ==
    LET foreign == CloudflareRule("r1", "ip.src eq 192.0.2.1", "other", TRUE, 4)
        marker(e, expr) == CloudflareRule("r2", expr, RuleDescription, e, 7)
    IN  { <<foreign>> }
        \cup { <<foreign, marker(TRUE, BuildExpression(ParseHostnames(env)))>> :
                 env \in ConfigEnvs }
        \cup { <<foreign, marker(FALSE, BuildExpression(<<HostA>>))>> }

VARIABLES
    config,       \* types.Config: DestHostnames, CFRuleDefaultEnabled
    remote,       \* the zone's entrypoint ruleset at Cloudflare
    currentRule,  \* Reconciler.currentRule
    rulesetID,    \* Reconciler.rulesetID
    writers,      \* holders of Reconciler.mutex in write mode
    readers,      \* holders of Reconciler.mutex in read mode
    stopCh,       \* Reconciler.stopCh is closed
    stoppedCh,    \* Reconciler.stoppedCh is closed
    pc,           \* position of every goroutine
    net,          \* the remote call every goroutine has in progress
    loc,          \* local variables and last return value of every goroutine
    sent,         \* requests issued by the running pass or call
    ret,          \* what the last public operation that returned has returned
    hist,         \* history: the rule the last pass cached, with the callers'
                  \* mutations applied to it in the order the remote side took them
    start,        \* history: the cache when the running pass began
    failed,       \* history: some pass or call returned an error
    calls,        \* API calls made
    ticks,        \* ticks of the loop's ticker
    faults,       \* failures the remote side has answered with
    arrays,       \* SpecCopy: the backing arrays of the Hostnames slices
    cacheArray,   \* SpecCopy: the array currentRule.Hostnames points to
    held,         \* SpecCopy: the rule a caller was returned and still holds
    clientPC,     \* SpecClient: position of the client operation in progress
    clientOp,     \* SpecClient: the client operation in progress
    attempt,      \* SpecClient: makeRequest's loop variable
    httpResp,     \* SpecClient: makeRequest's resp
    ctxDone,      \* SpecClient: the caller's context is cancelled or past its deadline
    tried,        \* SpecClient, history: what httpClient.Do returned, per attempt
    slept,        \* SpecClient, history: the time.Sleep calls made
    clientRet,    \* SpecClient: what the client operation returned
    typesIn,      \* SpecTypes: the function applied and its argument
    typesOut,     \* SpecTypes: what the function returned
    handled,      \* SpecServer: the request the server handled last
    written,      \* SpecServer: the response written to it
    called        \* SpecServer: the calls its handler made to the RuleReconciler

vars == <<config, remote, currentRule, rulesetID, writers, readers, stopCh,
          stoppedCh, pc, net, loc, sent, ret, hist, start, failed, calls, ticks,
          faults, arrays, cacheArray, held, clientPC, clientOp, attempt, httpResp,
          ctxDone, tried, slept, clientRet, typesIn, typesOut, handled, written,
          called>>

\* the state of SpecCopy, which the operations of the other specifications
\* leave alone
copyVars == <<arrays, cacheArray, held>>

\* the state of SpecClient
clientVars == <<clientPC, clientOp, attempt, httpResp, ctxDone, tried, slept, clientRet>>

\* the state of SpecTypes
typesVars == <<typesIn, typesOut>>

\* the state of SpecServer
serverVars == <<handled, written, called>>

\* the state that the reconciler's operations leave alone
auxVars == <<clientVars, typesVars, serverVars>>

\* the reconciler's own state
reconcilerVars == <<config, remote, currentRule, rulesetID, writers, readers, stopCh,
                    stoppedCh, pc, net, loc, sent, ret, hist, start, failed, calls,
                    ticks, faults, copyVars>>

\* the state that the operations of SpecClient, SpecTypes and SpecServer leave alone
besideClient == <<reconcilerVars, typesVars, serverVars>>
besideTypes == <<reconcilerVars, clientVars, serverVars>>
besideServer == <<reconcilerVars, clientVars, typesVars>>

(***************************************************************************)
(* internal/cloudflare: what each client operation returns for a response. *)
(***************************************************************************)
Result(val, err) == [val |-> val, err |-> err]

\* fmt.Sprintf("%v", errors) of a []types.CloudflareAPIError: "[{code message} ...]"
RECURSIVE JoinErrors(_)
JoinErrors(errors) ==
    IF errors = <<>> THEN ""
    ELSE "{" \o ToString(Head(errors).code) \o " " \o Head(errors).message \o "}"
         \o (IF Len(errors) = 1 THEN "" ELSE " " \o JoinErrors(Tail(errors)))

SprintfErrors(errors) == "[" \o JoinErrors(errors) \o "]"

GetEntrypointRuleset(resp) ==
    IF resp.status = StatusNotFound THEN Result(NilRuleset, "entrypoint ruleset not found")
    ELSE IF resp.status # StatusOK THEN Result(NilRuleset, "unexpected status code: " \o ToString(resp.status))
    ELSE IF ~resp.success THEN Result(NilRuleset, "API error: " \o SprintfErrors(resp.errors))
    ELSE Result(resp.result, NoError)

CreateEntrypointRuleset(resp) ==
    IF resp.status # StatusOK THEN Result(NilRuleset, "unexpected status code: " \o ToString(resp.status))
    ELSE IF ~resp.success THEN Result(NilRuleset, "API error: " \o SprintfErrors(resp.errors))
    ELSE Result(resp.result, NoError)

AddRule(resp) ==
    IF resp.status # StatusOK THEN Result(NilRule, "unexpected status code: " \o ToString(resp.status))
    ELSE IF ~resp.success THEN Result(NilRule, "API error: " \o SprintfErrors(resp.errors))
    ELSE Result(resp.result, NoError)

UpdateRule(resp) ==
    IF resp.status # StatusOK THEN Result(NilRule, "unexpected status code: " \o ToString(resp.status))
    ELSE IF ~resp.success THEN Result(NilRule, "API error: " \o SprintfErrors(resp.errors))
    ELSE Result(resp.result, NoError)

\* mutant: only the first rule of the ruleset is looked at
FindIndexOfHead(rules, description, i) ==
    IF rules # <<>> /\ rules[1].Description = description THEN 1 ELSE 0

\* index of the first rule with the description, 0 when there is none
RECURSIVE FindIndex(_, _, _)
FindIndex(rules, description, i) ==
    IF i > Len(rules) THEN 0
    ELSE IF rules[i].Description = description THEN i
    ELSE FindIndex(rules, description, i + 1)

\* mutant: the last rule with the description is returned
FindLastRuleByDescription(ruleset, description) ==
    LET matches == { i \in 1..Len(ruleset.Rules) :
                       ruleset.Rules[i].Description = description }
    IN  IF matches = {} THEN NilRule
        ELSE ruleset.Rules[CHOOSE i \in matches : \A j \in matches : j <= i]

FindRuleByDescription(ruleset, description) ==
    LET i == FindIndex(ruleset.Rules, description, 1)
    IN  IF i = 0 THEN NilRule ELSE ruleset.Rules[i]

(***************************************************************************)
(* The remote rule API: the envelope it answers each request with and the  *)
(* change it makes to the ruleset.                                         *)
(***************************************************************************)
Response(status, success, result) ==
    [status |-> status, success |-> success, result |-> result,
     errors |-> IF success THEN <<>> ELSE <<AuthenticationError>>,
     retryAfter |-> <<>>]

\* answers of a remote side that rejects the request
FaultResponses ==
    { Response(StatusUnauthorized, FALSE, NilRule),
      Response(StatusOK, FALSE, NilRule) }

RECURSIVE IndexByID(_, _, _)
IndexByID(rules, id, i) ==
    IF i > Len(rules) THEN 0
    ELSE IF rules[i].ID = id THEN i
    ELSE IndexByID(rules, id, i + 1)

\* PATCH semantics: only the fields sent change, and the version advances
Patch(rule, updates) ==
    [rule EXCEPT
       !.Enabled = IF "enabled" \in DOMAIN updates THEN updates["enabled"] ELSE @,
       !.Expression = IF "expression" \in DOMAIN updates THEN updates["expression"] ELSE @,
       !.Version = @ + 1]

\* the ruleset after the request, and the response to it
Serve(rem, req) ==
    CASE req.op = "GetEntrypointRuleset" ->
           IF rem.exists
           THEN [remote |-> rem,
                 resp |-> Response(StatusOK, TRUE, [ID |-> rem.ID, Rules |-> rem.Rules])]
           ELSE [remote |-> rem, resp |-> Response(StatusNotFound, FALSE, NilRuleset)]
      [] req.op = "CreateEntrypointRuleset" ->
           IF rem.exists
           THEN [remote |-> rem, resp |-> Response(StatusOK, FALSE, NilRuleset)]
           ELSE LET created == [exists |-> TRUE, ID |-> RulesetIDs[1], Rules |-> <<>>]
                IN  [remote |-> created,
                     resp |-> Response(StatusOK, TRUE, [ID |-> created.ID, Rules |-> <<>>])]
      [] req.op = "AddRule" ->
           IF rem.exists /\ rem.ID = req.rulesetID /\ Len(rem.Rules) < Len(RuleIDs)
           THEN LET rule == [req.rule EXCEPT !.ID = RuleIDs[Len(rem.Rules) + 1],
                                             !.Version = 1]
                IN  [remote |-> [rem EXCEPT !.Rules = Append(@, rule)],
                     resp |-> Response(StatusOK, TRUE, rule)]
           ELSE [remote |-> rem, resp |-> Response(StatusNotFound, FALSE, NilRule)]
      [] req.op = "UpdateRule" ->
           LET i == IF rem.exists /\ rem.ID = req.rulesetID
                    THEN IndexByID(rem.Rules, req.ruleID, 1) ELSE 0
           IN  IF i = 0
               THEN [remote |-> rem, resp |-> Response(StatusNotFound, FALSE, NilRule)]
               ELSE LET rule == Patch(rem.Rules[i], req.updates)
                    IN  [remote |-> [rem EXCEPT !.Rules[i] = rule],
                         resp |-> Response(StatusOK, TRUE, rule)]

NoLocals == [op |-> "none"]
NoStart == [rule |-> NilRule, rulesetID |-> "", dirty |-> FALSE]

Idle == [state |-> "idle", req |-> NoRequest, resp |-> NoResponse]
Sent(req) == [state |-> "sent", req |-> req, resp |-> NoResponse]

(***************************************************************************)
(* Reconciler.mutex (sync.RWMutex).                                        *)
(***************************************************************************)
\* mutant: Lock does not wait for the holders of the mutex
NoExclusion == TRUE

CanLock == writers = {} /\ readers = {}
CanRLock == writers = {}

\* the types.Rule that ensureRule caches for a rule the remote side reported
CachedFrom(rule, hostnames) ==
    [ID |-> rule.ID, Enabled |-> rule.Enabled, Expression |-> rule.Expression,
     Hostnames |-> hostnames, Description |-> rule.Description,
     Version |-> rule.Version]

\* no client operation has been called
ClientIdle ==
    /\ clientPC = "idle"
    /\ clientOp = "none"
    /\ attempt = 0
    /\ httpResp = NoResponse
    /\ ctxDone = FALSE
    /\ tried = <<>>
    /\ slept = <<>>
    /\ clientRet = [op |-> "none"]

\* the server has handled no request
ServerIdle ==
    /\ handled = [path |-> <<>>]
    /\ written = [status |-> 0]
    /\ called = <<>>

AuxInit ==
    /\ ClientIdle
    /\ ServerIdle
    /\ typesIn = [fn |-> "none"]
    /\ typesOut = [fn |-> "none"]

(***************************************************************************)
(* Initial state: NewReconciler, and a remote side in any state the zone   *)
(* can be in when the process starts.                                      *)
(***************************************************************************)
ReconcilerInit ==
    /\ config \in { [DestHostnames |-> ParseHostnames(env), CFRuleDefaultEnabled |-> d] :
                      env \in ConfigEnvs, d \in BOOLEAN }
    /\ remote \in { [exists |-> FALSE, ID |-> "", Rules |-> <<>>] }
                  \cup { [exists |-> TRUE, ID |-> RulesetIDs[1], Rules |-> rs] :
                           rs \in InitialRulesets }
    /\ currentRule = NilRule
    /\ rulesetID = ""
    /\ writers = {}
    /\ readers = {}
    /\ stopCh = FALSE
    /\ stoppedCh = FALSE
    /\ pc = [p \in Procs |-> IF p = Main THEN "init"
                             ELSE IF p = Loop THEN "unspawned" ELSE "idle"]
    /\ net = [p \in Procs |-> Idle]
    /\ loc = [p \in Procs |-> NoLocals]
    /\ sent = [p \in Procs |-> <<>>]
    /\ ret = [op |-> "none"]
    /\ hist = NilRule
    /\ start = [p \in Passers |-> NoStart]
    /\ failed = FALSE
    /\ calls = 0
    /\ ticks = 0
    /\ faults = 0
    /\ arrays = ("config" :> config.DestHostnames)
    /\ cacheArray = "none"
    /\ held = [c \in Callers |-> NilRule]

Init ==
    /\ ReconcilerInit
    /\ AuxInit

(***************************************************************************)
(* The remote side answers a request that is in flight: it applies the     *)
(* request, or answers with a failure and changes nothing.                  *)
(***************************************************************************)
\* history: the remote side applied a caller's mutation
Applied(p, resp) ==
    IF p \in Callers /\ resp.status = StatusOK /\ resp.success /\ hist # NilRule
    THEN IF loc[p].op = "ToggleRule"
         THEN [hist EXCEPT !.Enabled = loc[p].arg, !.Version = resp.result.Version]
         ELSE [hist EXCEPT !.Hostnames = loc[p].hosts,
                           !.Expression = BuildExpression(loc[p].hosts),
                           !.Version = resp.result.Version]
    ELSE hist

RemoteHandle(p) ==
    /\ net[p].state = "sent"
    /\ \/ LET served == Serve(remote, net[p].req)
          IN  /\ remote' = served.remote
              /\ net' = [net EXCEPT ![p].state = "answered", ![p].resp = served.resp]
              /\ hist' = Applied(p, served.resp)
              /\ UNCHANGED faults
       \/ /\ faults < MaxFaults
          /\ \E resp \in FaultResponses :
                net' = [net EXCEPT ![p].state = "answered", ![p].resp = resp]
          /\ faults' = faults + 1
          /\ UNCHANGED <<remote, hist>>
    /\ UNCHANGED <<copyVars, auxVars, config, currentRule, rulesetID, writers, readers, stopCh,
                   stoppedCh, pc, loc, sent, ret, start, failed, calls, ticks>>

(***************************************************************************)
(* reconcileOnce: ensureEntrypointRuleset, then ensureRule.                *)
(***************************************************************************)
GetRequest == [op |-> "GetEntrypointRuleset"]
CreateRequest == [op |-> "CreateEntrypointRuleset"]
AddRequest(id, rule) == [op |-> "AddRule", rulesetID |-> id, rule |-> rule]
UpdateRequest(id, ruleID, updates) ==
    [op |-> "UpdateRule", rulesetID |-> id, ruleID |-> ruleID, updates |-> updates]

\* mutant: the new rule is created enabled, whatever the configuration says
NewRuleEnabled(expectedExpression) ==
    CloudflareRule("", expectedExpression, RuleDescription, TRUE, 0)

\* the rule ensureRule asks the remote side to create
NewRule(expectedExpression) ==
    CloudflareRule("", expectedExpression, RuleDescription,
                   config.CFRuleDefaultEnabled, 0)

\* mutant: an existing rule is left as it is
NeverUpdate(existingRule, expectedExpression) == FALSE

\* mutant: an existing rule is updated on every pass
AlwaysUpdate(existingRule, expectedExpression) == TRUE

\* ensureRule updates an existing rule when its expression is not the expected one
NeedsUpdate(existingRule, expectedExpression) ==
    existingRule.Expression # expectedExpression

\* mutant: the update also resets enabled to the configured default
ExpressionAndEnabledUpdate(expectedExpression) ==
    ("expression" :> expectedExpression) @@ ("enabled" :> config.CFRuleDefaultEnabled)

\* the fields ensureRule sends to update an existing rule
ExpressionUpdate(expectedExpression) == "expression" :> expectedExpression

\* reconcileOnce is entered: ensureEntrypointRuleset asks for the entrypoint
BeginPass(p) ==
    /\ net' = [net EXCEPT ![p] = Sent(GetRequest)]
    /\ sent' = [sent EXCEPT ![p] = <<GetRequest>>]
    /\ loc' = [loc EXCEPT ![p] = [op |-> "reconcileOnce", ruleset |-> NilRuleset,
                                  existing |-> NilRule, res |-> NilRule,
                                  err |-> NoError]]
    /\ start' = [start EXCEPT ![p] = [rule |-> currentRule, rulesetID |-> rulesetID,
                                      dirty |-> FALSE]]
    /\ pc' = [pc EXCEPT ![p] = "get_sent"]

\* the pass is over: its locals are gone
EndPass(p) ==
    /\ loc' = [loc EXCEPT ![p] = NoLocals]
    /\ sent' = [sent EXCEPT ![p] = <<>>]
    /\ start' = [start EXCEPT ![p] = NoStart]

\* mutant: Start spawns the loop before its own pass
StartBeginSpawnsLoop ==
    /\ pc[Main] = "init"
    /\ net' = [net EXCEPT ![Main] = Sent(GetRequest)]
    /\ sent' = [sent EXCEPT ![Main] = <<GetRequest>>]
    /\ loc' = [loc EXCEPT ![Main] = [op |-> "reconcileOnce", ruleset |-> NilRuleset,
                                     existing |-> NilRule, res |-> NilRule,
                                     err |-> NoError]]
    /\ start' = [start EXCEPT ![Main] = [rule |-> currentRule, rulesetID |-> rulesetID,
                                         dirty |-> FALSE]]
    /\ pc' = [pc EXCEPT ![Main] = "get_sent", ![Loop] = "idle"]
    /\ UNCHANGED <<copyVars, auxVars, config, remote, currentRule, rulesetID, writers, readers,
                   stopCh, stoppedCh, ret, hist, failed, calls, ticks, faults>>

\* Start calls reconcileOnce
StartBegin ==
    /\ pc[Main] = "init"
    /\ BeginPass(Main)
    /\ UNCHANGED <<copyVars, auxVars, config, remote, currentRule, rulesetID, writers, readers,
                   stopCh, stoppedCh, ret, hist, failed, calls, ticks, faults>>

\* reconcileLoop selects the ticker and calls reconcileOnce
Tick ==
    /\ pc[Loop] = "idle"
    /\ ticks < MaxTicks
    /\ calls + ticks < MaxOps
    /\ ticks' = ticks + 1
    /\ BeginPass(Loop)
    /\ UNCHANGED <<copyVars, auxVars, config, remote, currentRule, rulesetID, writers, readers,
                   stopCh, stoppedCh, ret, hist, failed, calls, faults>>

\* ensureEntrypointRuleset receives the answer to its get or create request
EnsureEntrypointRuleset(p) ==
    /\ pc[p] \in {"get_sent", "create_sent"}
    /\ net[p].state = "answered"
    /\ LET got == IF pc[p] = "get_sent" THEN GetEntrypointRuleset(net[p].resp)
                  ELSE CreateEntrypointRuleset(net[p].resp)
       IN  IF got.err # NoError
           THEN /\ pc' = [pc EXCEPT ![p] = "pass_err"]
                /\ loc' = [loc EXCEPT ![p].err = got.err]
                /\ net' = [net EXCEPT ![p] = Idle]
                /\ failed' = TRUE
                /\ UNCHANGED sent
           ELSE IF got.val # NilRuleset
           THEN /\ pc' = [pc EXCEPT ![p] = "have_ruleset"]
                /\ loc' = [loc EXCEPT ![p].ruleset = got.val]
                /\ net' = [net EXCEPT ![p] = Idle]
                /\ UNCHANGED <<sent, failed>>
           ELSE /\ pc' = [pc EXCEPT ![p] = "create_sent"]
                /\ net' = [net EXCEPT ![p] = Sent(CreateRequest)]
                /\ sent' = [sent EXCEPT ![p] = Append(@, CreateRequest)]
                /\ UNCHANGED <<loc, failed>>
    /\ UNCHANGED <<copyVars, auxVars, config, remote, currentRule, rulesetID, writers, readers,
                   stopCh, stoppedCh, ret, hist, start, calls, ticks, faults>>

\* reconcileOnce stores the ruleset id under the lock; ensureRule then looks
\* for the managed rule in the ruleset it was given and decides what to send
StoreRulesetID(p) ==
    /\ pc[p] = "have_ruleset"
    /\ CanLock
    /\ rulesetID' = loc[p].ruleset.ID
    /\ LET ruleset == loc[p].ruleset
           existingRule == FindRuleByDescription(ruleset, RuleDescription)
           expectedExpression == BuildExpression(config.DestHostnames)
       IN  IF existingRule = NilRule
           THEN LET req == AddRequest(ruleset.ID, NewRule(expectedExpression))
                IN  /\ net' = [net EXCEPT ![p] = Sent(req)]
                    /\ sent' = [sent EXCEPT ![p] = Append(@, req)]
                    /\ pc' = [pc EXCEPT ![p] = "add_sent"]
                    /\ UNCHANGED loc
           ELSE IF NeedsUpdate(existingRule, expectedExpression)
           THEN LET req == UpdateRequest(ruleset.ID, existingRule.ID,
                                         ExpressionUpdate(expectedExpression))
                IN  /\ net' = [net EXCEPT ![p] = Sent(req)]
                    /\ sent' = [sent EXCEPT ![p] = Append(@, req)]
                    /\ pc' = [pc EXCEPT ![p] = "upd_sent"]
                    /\ loc' = [loc EXCEPT ![p].existing = existingRule]
           ELSE /\ pc' = [pc EXCEPT ![p] = "commit"]
                /\ loc' = [loc EXCEPT ![p].existing = existingRule,
                                      ![p].res = existingRule]
                /\ UNCHANGED <<net, sent>>
    /\ UNCHANGED <<copyVars, auxVars, config, remote, currentRule, writers, readers, stopCh,
                   stoppedCh, ret, hist, start, failed, calls, ticks, faults>>

\* ensureRule receives the answer to its AddRule or UpdateRule request
EnsureRuleAnswer(p) ==
    /\ pc[p] \in {"add_sent", "upd_sent"}
    /\ net[p].state = "answered"
    /\ LET got == IF pc[p] = "add_sent" THEN AddRule(net[p].resp)
                  ELSE UpdateRule(net[p].resp)
       IN  IF got.err # NoError
           THEN /\ pc' = [pc EXCEPT ![p] = "pass_err"]
                /\ loc' = [loc EXCEPT ![p].err = got.err]
                /\ failed' = TRUE
           ELSE /\ pc' = [pc EXCEPT ![p] = "commit"]
                /\ loc' = [loc EXCEPT ![p].res = got.val]
                /\ UNCHANGED failed
    /\ net' = [net EXCEPT ![p] = Idle]
    /\ UNCHANGED <<copyVars, auxVars, config, remote, currentRule, rulesetID, writers, readers,
                   stopCh, stoppedCh, sent, ret, hist, start, calls, ticks,
                   faults>>

\* ensureRule caches the rule under the lock and returns nil
CacheRule(p) ==
    /\ pc[p] = "commit"
    /\ CanLock
    /\ currentRule' = CachedFrom(loc[p].res, config.DestHostnames)
    /\ hist' = currentRule'
    /\ pc' = [pc EXCEPT ![p] = "pass_ok"]
    /\ UNCHANGED <<copyVars, auxVars, config, remote, rulesetID, writers, readers, stopCh,
                   stoppedCh, net, loc, sent, ret, start, failed, calls, ticks,
                   faults>>

(***************************************************************************)
(* Start, reconcileLoop and Stop.                                          *)
(***************************************************************************)
\* mutant: Start spawns the loop and returns nil whatever the pass returned
StartReturnIgnoresError ==
    /\ pc[Main] \in {"pass_ok", "pass_err"}
    /\ pc' = [pc EXCEPT ![Main] = "started", ![Loop] = "idle"]
    /\ EndPass(Main)
    /\ UNCHANGED <<copyVars, auxVars, config, remote, currentRule, rulesetID, writers, readers,
                   stopCh, stoppedCh, net, ret, hist, failed, calls, ticks,
                   faults>>

\* Start returns: the loop is spawned when the initial pass succeeded
StartReturn ==
    /\ pc[Main] \in {"pass_ok", "pass_err"}
    /\ pc' = IF pc[Main] = "pass_ok"
             THEN [pc EXCEPT ![Main] = "started", ![Loop] = "idle"]
             ELSE [pc EXCEPT ![Main] = "start_failed"]
    /\ EndPass(Main)
    /\ UNCHANGED <<copyVars, auxVars, config, remote, currentRule, rulesetID, writers, readers,
                   stopCh, stoppedCh, net, ret, hist, failed, calls, ticks,
                   faults>>

\* mutant: the loop returns when the pass of a tick has failed
LoopNextExitsOnError ==
    /\ pc[Loop] \in {"pass_ok", "pass_err"}
    /\ pc' = [pc EXCEPT ![Loop] = IF pc[Loop] = "pass_err" THEN "exited" ELSE "idle"]
    /\ stoppedCh' = (stoppedCh \/ pc[Loop] = "pass_err")
    /\ EndPass(Loop)
    /\ UNCHANGED <<copyVars, auxVars, config, remote, currentRule, rulesetID, writers, readers,
                   stopCh, net, ret, hist, failed, calls, ticks, faults>>

\* the pass of a tick is over: the loop logs a failure and selects again
LoopNext ==
    /\ pc[Loop] \in {"pass_ok", "pass_err"}
    /\ pc' = [pc EXCEPT ![Loop] = "idle"]
    /\ EndPass(Loop)
    /\ UNCHANGED <<copyVars, auxVars, config, remote, currentRule, rulesetID, writers, readers,
                   stopCh, stoppedCh, net, ret, hist, failed, calls, ticks,
                   faults>>

\* Stop closes stopCh and waits for stoppedCh
StopBegin ==
    /\ pc[Main] = "started"
    /\ stopCh' = TRUE
    /\ pc' = [pc EXCEPT ![Main] = "stopping"]
    /\ UNCHANGED <<copyVars, auxVars, config, remote, currentRule, rulesetID, writers, readers,
                   stoppedCh, net, loc, sent, ret, hist, start, failed, calls,
                   ticks, faults>>

\* mutant: reconcileLoop returns without closing stoppedCh
LoopStopNoSignal ==
    /\ pc[Loop] = "idle"
    /\ stopCh
    /\ pc' = [pc EXCEPT ![Loop] = "exited"]
    /\ UNCHANGED <<copyVars, auxVars, config, remote, currentRule, rulesetID, writers, readers,
                   stopCh, stoppedCh, net, loc, sent, ret, hist, start, failed,
                   calls, ticks, faults>>

\* reconcileLoop selects stopCh, returns and closes stoppedCh
LoopStop ==
    /\ pc[Loop] = "idle"
    /\ stopCh
    /\ stoppedCh' = TRUE
    /\ pc' = [pc EXCEPT ![Loop] = "exited"]
    /\ UNCHANGED <<copyVars, auxVars, config, remote, currentRule, rulesetID, writers, readers,
                   stopCh, net, loc, sent, ret, hist, start, failed, calls,
                   ticks, faults>>

\* mutant: Stop does not wait for stoppedCh
StopReturnNoWait ==
    /\ pc[Main] = "stopping"
    /\ pc' = [pc EXCEPT ![Main] = "stopped"]
    /\ UNCHANGED <<copyVars, auxVars, config, remote, currentRule, rulesetID, writers, readers,
                   stopCh, stoppedCh, net, loc, sent, ret, hist, start, failed,
                   calls, ticks, faults>>

\* Stop returns
StopReturn ==
    /\ pc[Main] = "stopping"
    /\ stoppedCh
    /\ pc' = [pc EXCEPT ![Main] = "stopped"]
    /\ UNCHANGED <<copyVars, auxVars, config, remote, currentRule, rulesetID, writers, readers,
                   stopCh, stoppedCh, net, loc, sent, ret, hist, start, failed,
                   calls, ticks, faults>>

(***************************************************************************)
(* The public operations, each called by a goroutine of the API server.    *)
(***************************************************************************)
\* the goroutines are interchangeable: a call is taken by the first idle one
Earlier(c) == IF c = "c2" THEN {"c1"} ELSE {}
Free(c) == pc[c] = "idle" /\ \A d \in Earlier(c) : pc[d] # "idle"

Call(op, arg) == [op |-> op, arg |-> arg, hosts |-> <<>>]

\* what a call returns: a rule or an error, after the requests it has issued
Return(c, call, rule, err, reqs) ==
    [proc |-> c, op |-> call.op, arg |-> call.arg, rule |-> rule, err |-> err,
     reqs |-> reqs]

\* mutant: the error of the remote call is replaced, not wrapped
ErrorfReplaced(msg, err) == msg

\* fmt.Errorf("msg: %w", err)
Errorf(msg, err) == msg \o ": " \o err

\* mutant: GetCurrentRule does not check that a rule is cached
AlwaysAvailable == FALSE

\* the guard of GetCurrentRule
NoRuleAvailable == currentRule = NilRule

\* the guard of ToggleRule and UpdateHosts
NotInitialized == currentRule = NilRule \/ rulesetID = ""

\* mutant: ToggleRule caches the expression of the updated rule as well
ToggledWithExpression(rule, updatedRule) ==
    [rule EXCEPT !.Enabled = updatedRule.Enabled, !.Version = updatedRule.Version,
                 !.Expression = updatedRule.Expression]

\* the cache after ToggleRule received the updated rule
Toggled(rule, updatedRule) ==
    [rule EXCEPT !.Enabled = updatedRule.Enabled, !.Version = updatedRule.Version]

\* the cache after UpdateHosts received the updated rule
HostsUpdated(rule, updatedRule, normalizedHosts) ==
    [rule EXCEPT !.Expression = updatedRule.Expression,
                 !.Hostnames = normalizedHosts,
                 !.Version = updatedRule.Version]

\* history: a caller changed the cache while a pass is running
Dirty == [p \in Passers |-> IF pc[p] \in {"init", "unspawned", "idle", "started",
                                         "start_failed", "stopping", "stopped",
                                         "exited"}
                            THEN start[p] ELSE [start[p] EXCEPT !.dirty = TRUE]]

\* GetCurrentRule takes the read lock
GetCurrentRuleBegin(c) ==
    /\ Free(c)
    /\ calls < MaxCalls
    /\ calls + ticks < MaxOps
    /\ CanRLock
    /\ readers' = readers \cup {c}
    /\ calls' = calls + 1
    /\ loc' = [loc EXCEPT ![c] = Call("GetCurrentRule", FALSE)]
    /\ pc' = [pc EXCEPT ![c] = "reading"]
    /\ UNCHANGED <<copyVars, auxVars, config, remote, currentRule, rulesetID, writers, stopCh,
                   stoppedCh, net, sent, ret, hist, start, failed, ticks,
                   faults>>

\* GetCurrentRule reads the cache, releases the read lock and returns
GetCurrentRuleReturn(c) ==
    /\ pc[c] = "reading"
    /\ IF NoRuleAvailable
       THEN /\ ret' = Return(c, loc[c], NilRule, "no rule available", <<>>)
            /\ failed' = TRUE
       ELSE /\ ret' = Return(c, loc[c], currentRule, NoError, <<>>)
            /\ UNCHANGED failed
    /\ readers' = readers \ {c}
    /\ loc' = [loc EXCEPT ![c] = NoLocals]
    /\ pc' = [pc EXCEPT ![c] = "idle"]
    /\ UNCHANGED <<copyVars, auxVars, config, remote, currentRule, rulesetID, writers, stopCh,
                   stoppedCh, net, sent, hist, start, calls, ticks, faults>>

\* ToggleRule takes the lock, checks the cache and sends the update
ToggleRuleBegin(c, enabled) ==
    /\ Free(c)
    /\ calls < MaxCalls
    /\ calls + ticks < MaxOps
    /\ CanLock
    /\ calls' = calls + 1
    /\ IF NotInitialized
       THEN /\ ret' = Return(c, Call("ToggleRule", enabled), NilRule,
                             "rule not initialized", <<>>)
            /\ failed' = TRUE
            /\ UNCHANGED <<writers, net, pc, loc, sent>>
       ELSE LET req == UpdateRequest(rulesetID, currentRule.ID, "enabled" :> enabled)
            IN  /\ writers' = writers \cup {c}
                /\ loc' = [loc EXCEPT ![c] = Call("ToggleRule", enabled)]
                /\ net' = [net EXCEPT ![c] = Sent(req)]
                /\ sent' = [sent EXCEPT ![c] = <<req>>]
                /\ pc' = [pc EXCEPT ![c] = "toggling"]
                /\ UNCHANGED <<ret, failed>>
    /\ UNCHANGED <<copyVars, auxVars, config, remote, currentRule, rulesetID, readers, stopCh,
                   stoppedCh, hist, start, ticks, faults>>

\* ToggleRule receives the answer, updates the cache, unlocks and returns
ToggleRuleReturn(c) ==
    /\ pc[c] = "toggling"
    /\ net[c].state = "answered"
    /\ LET got == UpdateRule(net[c].resp)
       IN  IF got.err # NoError
           THEN /\ ret' = Return(c, loc[c], NilRule,
                                 Errorf("failed to update rule", got.err), sent[c])
                /\ failed' = TRUE
                /\ UNCHANGED <<currentRule, start>>
           ELSE /\ currentRule' = Toggled(currentRule, got.val)
                /\ ret' = Return(c, loc[c], currentRule', NoError, sent[c])
                /\ start' = Dirty
                /\ UNCHANGED failed
    /\ writers' = writers \ {c}
    /\ net' = [net EXCEPT ![c] = Idle]
    /\ loc' = [loc EXCEPT ![c] = NoLocals]
    /\ sent' = [sent EXCEPT ![c] = <<>>]
    /\ pc' = [pc EXCEPT ![c] = "idle"]
    /\ UNCHANGED <<copyVars, auxVars, config, remote, rulesetID, readers, stopCh, stoppedCh, hist,
                   calls, ticks, faults>>

\* UpdateHosts takes the lock, checks the cache, normalizes the hostnames
\* and sends the update
UpdateHostsBegin(c, hostnames) ==
    /\ Free(c)
    /\ calls < MaxCalls
    /\ calls + ticks < MaxOps
    /\ CanLock
    /\ calls' = calls + 1
    /\ LET normalizedHosts == ParseHostnames(SprintfV(hostnames))
           expression == BuildExpression(normalizedHosts)
           call == Call("UpdateHosts", hostnames)
       IN  IF NotInitialized
           THEN /\ ret' = Return(c, call, NilRule, "rule not initialized", <<>>)
                /\ failed' = TRUE
                /\ UNCHANGED <<writers, net, pc, loc, sent>>
           ELSE IF Len(normalizedHosts) = 0
           THEN /\ ret' = Return(c, call, NilRule, "no valid hostnames provided", <<>>)
                /\ failed' = TRUE
                /\ UNCHANGED <<writers, net, pc, loc, sent>>
           ELSE LET req == UpdateRequest(rulesetID, currentRule.ID,
                                         "expression" :> expression)
                IN  /\ writers' = writers \cup {c}
                    /\ loc' = [loc EXCEPT ![c] = [call EXCEPT !.hosts = normalizedHosts]]
                    /\ net' = [net EXCEPT ![c] = Sent(req)]
                    /\ sent' = [sent EXCEPT ![c] = <<req>>]
                    /\ pc' = [pc EXCEPT ![c] = "updating"]
                    /\ UNCHANGED <<ret, failed>>
    /\ UNCHANGED <<copyVars, auxVars, config, remote, currentRule, rulesetID, readers, stopCh,
                   stoppedCh, hist, start, ticks, faults>>

\* UpdateHosts receives the answer, updates the cache, unlocks and returns
UpdateHostsReturn(c) ==
    /\ pc[c] = "updating"
    /\ net[c].state = "answered"
    /\ LET got == UpdateRule(net[c].resp)
       IN  IF got.err # NoError
           THEN /\ ret' = Return(c, loc[c], NilRule,
                                 Errorf("failed to update rule expression", got.err),
                                 sent[c])
                /\ failed' = TRUE
                /\ UNCHANGED <<currentRule, start>>
           ELSE /\ currentRule' = HostsUpdated(currentRule, got.val, loc[c].hosts)
                /\ ret' = Return(c, loc[c], currentRule', NoError, sent[c])
                /\ start' = Dirty
                /\ UNCHANGED failed
    /\ writers' = writers \ {c}
    /\ net' = [net EXCEPT ![c] = Idle]
    /\ loc' = [loc EXCEPT ![c] = NoLocals]
    /\ sent' = [sent EXCEPT ![c] = <<>>]
    /\ pc' = [pc EXCEPT ![c] = "idle"]
    /\ UNCHANGED <<copyVars, auxVars, config, remote, rulesetID, readers, stopCh, stoppedCh, hist,
                   calls, ticks, faults>>

(***************************************************************************)
(* The specification.                                                      *)
(***************************************************************************)
Next ==
    \/ StartBegin
    \/ Tick
    \/ \E p \in Procs : RemoteHandle(p)
    \/ \E p \in Passers : EnsureEntrypointRuleset(p)
    \/ \E p \in Passers : StoreRulesetID(p)
    \/ \E p \in Passers : EnsureRuleAnswer(p)
    \/ \E p \in Passers : CacheRule(p)
    \/ StartReturn
    \/ LoopNext
    \/ \E c \in Callers : GetCurrentRuleBegin(c)
    \/ \E c \in Callers : GetCurrentRuleReturn(c)
    \/ \E c \in Callers, enabled \in BOOLEAN : ToggleRuleBegin(c, enabled)
    \/ \E c \in Callers : ToggleRuleReturn(c)
    \/ \E c \in Callers, hostnames \in HostInputs : UpdateHostsBegin(c, hostnames)
    \/ \E c \in Callers : UpdateHostsReturn(c)

Spec == Init /\ [][Next]_vars

\* the same with the shutdown of the process
Shutdown == StopBegin \/ LoopStop \/ StopReturn

SpecShutdown == Init /\ [][Next \/ Shutdown]_vars

\* The shutdown with the goroutines that the loop shares the mutex with: a
\* caller that takes the write lock over a remote call (ToggleRule; UpdateHosts
\* locks in the same way) and one that takes the read lock (GetCurrentRule).
NextStop ==
    \/ StartBegin
    \/ Tick
    \/ \E p \in Procs : RemoteHandle(p)
    \/ \E p \in Passers : EnsureEntrypointRuleset(p)
    \/ \E p \in Passers : StoreRulesetID(p)
    \/ \E p \in Passers : EnsureRuleAnswer(p)
    \/ \E p \in Passers : CacheRule(p)
    \/ StartReturn
    \/ LoopNext
    \/ \E c \in Callers : GetCurrentRuleBegin(c)
    \/ \E c \in Callers : GetCurrentRuleReturn(c)
    \/ \E c \in Callers, enabled \in BOOLEAN : ToggleRuleBegin(c, enabled)
    \/ \E c \in Callers : ToggleRuleReturn(c)
    \/ StopBegin
    \/ LoopStop
    \/ StopReturn

\* Scheduling: every goroutine that can take a step eventually does, a
\* remote call is answered, the mutex is granted to a goroutine that keeps
\* asking for it, and a select whose stop case is ready again and again
\* eventually takes it (select chooses among its ready cases at random).
Fairness ==
    /\ \A p \in Procs : WF_vars(RemoteHandle(p))
    /\ WF_vars(EnsureEntrypointRuleset(Loop))
    /\ SF_vars(StoreRulesetID(Loop))
    /\ WF_vars(EnsureRuleAnswer(Loop))
    /\ SF_vars(CacheRule(Loop))
    /\ WF_vars(LoopNext)
    /\ \A c \in Callers : WF_vars(GetCurrentRuleReturn(c))
    /\ \A c \in Callers : WF_vars(ToggleRuleReturn(c))
    /\ SF_vars(LoopStop)
    /\ WF_vars(StopReturn)

SpecStop == Init /\ [][NextStop]_vars /\ Fairness

TypeOK ==
    /\ writers \subseteq Procs
    /\ readers \subseteq Callers
    /\ calls \in 0..MaxCalls
    /\ ticks \in 0..MaxTicks
    /\ faults \in 0..MaxFaults

(***************************************************************************)
(* A remote side that keeps expressions in a notation of its own: it       *)
(* stores, and answers with, another text than the one it was sent.        *)
(***************************************************************************)
\* the text the remote side makes of an expression
Rewritten(expression) == "(" \o expression \o ")"

CarriesExpression(req) ==
    \/ req.op = "AddRule"
    \/ req.op = "UpdateRule" /\ "expression" \in DOMAIN req.updates

RewriteRequest(req) ==
    IF req.op = "AddRule"
    THEN [req EXCEPT !.rule.Expression = Rewritten(@)]
    ELSE [req EXCEPT !.updates = [@ EXCEPT !["expression"] = Rewritten(@)]]

\* the remote side applies a request and answers it, the expression rewritten
RemoteRewrite(p) ==
    /\ net[p].state = "sent"
    /\ CarriesExpression(net[p].req)
    /\ LET served == Serve(remote, RewriteRequest(net[p].req))
       IN  /\ remote' = served.remote
           /\ net' = [net EXCEPT ![p].state = "answered", ![p].resp = served.resp]
           /\ hist' = Applied(p, served.resp)
    /\ UNCHANGED <<copyVars, auxVars, config, currentRule, rulesetID, writers, readers, stopCh,
                   stoppedCh, pc, loc, sent, ret, start, failed, calls, ticks, faults>>

SpecRemoteText == Init /\ [][Next \/ \E p \in Procs : RemoteRewrite(p)]_vars

(***************************************************************************)
(* Stop, called by the goroutine of Start whenever it is not inside Start *)
(* or Stop: before Start, after a Start that failed, after a Start that    *)
(* succeeded, and again after Stop has returned.  close panics on a closed *)
(* channel, and a panic that nobody recovers ends every goroutine.         *)
(***************************************************************************)
\* mutant: a Stop after the first one closes nothing and waits
StopCallOnce ==
    /\ pc[Main] \in {"init", "start_failed", "started", "stopped"}
    /\ stopCh' = TRUE
    /\ pc' = [pc EXCEPT ![Main] = "stopping"]
    /\ UNCHANGED <<copyVars, auxVars, config, remote, currentRule, rulesetID, writers, readers,
                   stoppedCh, net, loc, sent, ret, hist, start, failed, calls,
                   ticks, faults>>

\* Stop closes stopCh, or panics closing it again, and waits for stoppedCh
StopCall ==
    /\ pc[Main] \in {"init", "start_failed", "started", "stopped"}
    /\ IF stopCh
       THEN /\ pc' = [p \in Procs |-> "panic"]
            /\ UNCHANGED stopCh
       ELSE /\ stopCh' = TRUE
            /\ pc' = [pc EXCEPT ![Main] = "stopping"]
    /\ UNCHANGED <<copyVars, auxVars, config, remote, currentRule, rulesetID, writers, readers,
                   stoppedCh, net, loc, sent, ret, hist, start, failed, calls,
                   ticks, faults>>

SpecStopCall == Init /\ [][Next \/ StopCall \/ LoopStop \/ StopReturn]_vars

(***************************************************************************)
(* The process of main: the HTTP server that carries the calls of the API  *)
(* is created and started after Start has returned nil, and is shut down   *)
(* after Stop has returned; a Start that fails ends the process.           *)
(***************************************************************************)
\* mutant: the HTTP server is started before the reconciler
ServingBeforeStart == TRUE

\* main has passed the start of the HTTP server and not yet its shutdown
Serving == pc[Main] \in {"started", "stopping", "stopped"}

\* os.Exit(1) of main when Start has returned an error
ExitOnStartError ==
    /\ pc[Main] = "start_failed"
    /\ pc' = [pc EXCEPT ![Main] = "exited"]
    /\ UNCHANGED <<copyVars, auxVars, config, remote, currentRule, rulesetID, writers, readers,
                   stopCh, stoppedCh, net, loc, sent, ret, hist, start, failed, calls,
                   ticks, faults>>

NextMain ==
    \/ StartBegin
    \/ Tick
    \/ \E p \in Procs : RemoteHandle(p)
    \/ \E p \in Passers : EnsureEntrypointRuleset(p)
    \/ \E p \in Passers : StoreRulesetID(p)
    \/ \E p \in Passers : EnsureRuleAnswer(p)
    \/ \E p \in Passers : CacheRule(p)
    \/ StartReturn
    \/ ExitOnStartError
    \/ LoopNext
    \/ \E c \in Callers : Serving /\ GetCurrentRuleBegin(c)
    \/ \E c \in Callers : GetCurrentRuleReturn(c)
    \/ \E c \in Callers, enabled \in BOOLEAN : Serving /\ ToggleRuleBegin(c, enabled)
    \/ \E c \in Callers : ToggleRuleReturn(c)
    \/ \E c \in Callers, hostnames \in HostInputs : Serving /\ UpdateHostsBegin(c, hostnames)
    \/ \E c \in Callers : UpdateHostsReturn(c)
    \/ StopBegin
    \/ LoopStop
    \/ StopReturn

SpecMain == Init /\ [][NextMain]_vars

(***************************************************************************)
(* A zone whose entrypoint ruleset is replaced while the process runs:     *)
(* another client of the remote rule API deletes it and creates a new one, *)
(* which gets an id of its own and holds no rules.                         *)
(***************************************************************************)
ExternalReplace ==
    /\ remote.exists
    /\ remote.ID = RulesetIDs[1]
    /\ remote' = [exists |-> TRUE, ID |-> RulesetIDs[2], Rules |-> <<>>]
    /\ UNCHANGED <<copyVars, auxVars, config, currentRule, rulesetID, writers, readers, stopCh,
                   stoppedCh, pc, net, loc, sent, ret, hist, start, failed, calls, ticks,
                   faults>>

SpecExternal == Init /\ [][Next \/ ExternalReplace]_vars

(***************************************************************************)
(* What a caller can do with the rule it was returned.  A Go slice is a    *)
(* reference to a backing array: copying a types.Rule copies the scalar    *)
(* fields and the slice header, not the array.  Here the reconciler is     *)
(* initialized and every operation runs to its return in one step, the     *)
(* mutex being held over it.                                               *)
(***************************************************************************)
\* rule := *r.currentRule
ShallowCopy(rule, array) ==
    [ID |-> rule.ID, Enabled |-> rule.Enabled, Expression |-> rule.Expression,
     Hostnames |-> array, Description |-> rule.Description, Version |-> rule.Version]

\* the array that the hostnames normalized by the n-th call are stored in
ArrayOf(n) == "call" \o ToString(n)

\* the hostname a caller overwrites an element with
Overwrites == { <<"B">> }

\* the reconciler after a Start that found the managed rule as configured
InitCopy ==
    /\ config \in { [DestHostnames |-> ParseHostnames(env), CFRuleDefaultEnabled |-> d] :
                      env \in ConfigEnvs, d \in BOOLEAN }
    /\ remote \in { [exists |-> TRUE, ID |-> RulesetIDs[1], Rules |-> rs] :
                      rs \in { r \in InitialRulesets :
                                 /\ FindIndex(r, RuleDescription, 1) # 0
                                 /\ ~NeedsUpdate(r[FindIndex(r, RuleDescription, 1)],
                                                 BuildExpression(config.DestHostnames)) } }
    /\ currentRule = CachedFrom(FindRuleByDescription(remote, RuleDescription),
                                config.DestHostnames)
    /\ rulesetID = remote.ID
    /\ writers = {}
    /\ readers = {}
    /\ stopCh = FALSE
    /\ stoppedCh = FALSE
    /\ pc = [p \in Procs |-> IF p = Main THEN "started" ELSE "idle"]
    /\ net = [p \in Procs |-> Idle]
    /\ loc = [p \in Procs |-> NoLocals]
    /\ sent = [p \in Procs |-> <<>>]
    /\ ret = [op |-> "none"]
    /\ hist = currentRule
    /\ start = [p \in Passers |-> NoStart]
    /\ failed = FALSE
    /\ calls = 0
    /\ ticks = 0
    /\ faults = 0
    /\ arrays = ("config" :> config.DestHostnames)
    /\ cacheArray = "config"
    /\ held = [c \in Callers |-> NilRule]
    /\ AuxInit

\* GetCurrentRule, from RLock to its return
CopyGetCurrentRule(c) ==
    /\ calls < MaxCalls
    /\ calls' = calls + 1
    /\ IF NoRuleAvailable
       THEN /\ ret' = Return(c, Call("GetCurrentRule", FALSE), NilRule,
                             "no rule available", <<>>)
            /\ UNCHANGED held
       ELSE /\ ret' = Return(c, Call("GetCurrentRule", FALSE), currentRule, NoError, <<>>)
            /\ held' = [held EXCEPT ![c] = ShallowCopy(currentRule, cacheArray)]
    /\ UNCHANGED <<auxVars, config, remote, currentRule, rulesetID, writers, readers, stopCh,
                   stoppedCh, pc, net, loc, sent, hist, start, failed, ticks,
                   faults, arrays, cacheArray>>

\* ToggleRule, from Lock to its return
CopyToggleRule(c, enabled) ==
    /\ calls < MaxCalls
    /\ calls' = calls + 1
    /\ IF NotInitialized
       THEN /\ ret' = Return(c, Call("ToggleRule", enabled), NilRule,
                             "rule not initialized", <<>>)
            /\ UNCHANGED <<remote, currentRule, held>>
       ELSE LET req == UpdateRequest(rulesetID, currentRule.ID, "enabled" :> enabled)
                served == Serve(remote, req)
                got == UpdateRule(served.resp)
            IN  /\ remote' = served.remote
                /\ IF got.err # NoError
                   THEN /\ ret' = Return(c, Call("ToggleRule", enabled), NilRule,
                                         Errorf("failed to update rule", got.err), <<req>>)
                        /\ UNCHANGED <<currentRule, held>>
                   ELSE /\ currentRule' = Toggled(currentRule, got.val)
                        /\ ret' = Return(c, Call("ToggleRule", enabled), currentRule',
                                         NoError, <<req>>)
                        /\ held' = [held EXCEPT ![c] = ShallowCopy(currentRule', cacheArray)]
    /\ hist' = currentRule'
    /\ UNCHANGED <<auxVars, config, rulesetID, writers, readers, stopCh, stoppedCh, pc, net,
                   loc, sent, start, failed, ticks, faults, arrays, cacheArray>>

\* UpdateHosts, from Lock to its return
CopyUpdateHosts(c, hostnames) ==
    /\ calls < MaxCalls
    /\ calls' = calls + 1
    /\ LET normalizedHosts == ParseHostnames(SprintfV(hostnames))
           call == Call("UpdateHosts", hostnames)
           req == UpdateRequest(rulesetID, currentRule.ID,
                                "expression" :> BuildExpression(normalizedHosts))
           served == Serve(remote, req)
           got == UpdateRule(served.resp)
       IN  IF NotInitialized \/ Len(normalizedHosts) = 0
           THEN /\ ret' = Return(c, call, NilRule,
                                 IF NotInitialized THEN "rule not initialized"
                                 ELSE "no valid hostnames provided", <<>>)
                /\ UNCHANGED <<remote, currentRule, held, arrays, cacheArray>>
           ELSE /\ remote' = served.remote
                /\ IF got.err # NoError
                   THEN /\ ret' = Return(c, call, NilRule,
                                         Errorf("failed to update rule expression", got.err),
                                         <<req>>)
                        /\ UNCHANGED <<currentRule, held, arrays, cacheArray>>
                   ELSE /\ currentRule' = HostsUpdated(currentRule, got.val, normalizedHosts)
                        /\ arrays' = arrays @@ (ArrayOf(calls') :> normalizedHosts)
                        /\ cacheArray' = ArrayOf(calls')
                        /\ ret' = Return(c, call, currentRule', NoError, <<req>>)
                        /\ held' = [held EXCEPT ![c] = ShallowCopy(currentRule', cacheArray')]
    /\ hist' = currentRule'
    /\ UNCHANGED <<auxVars, config, rulesetID, writers, readers, stopCh, stoppedCh, pc, net,
                   loc, sent, start, failed, ticks, faults>>

\* a caller assigns to a scalar field of the rule it holds
MutateEnabled(c) ==
    /\ held[c] # NilRule
    /\ held' = [held EXCEPT ![c].Enabled = ~@]
    /\ UNCHANGED <<auxVars, config, remote, currentRule, rulesetID, writers, readers, stopCh,
                   stoppedCh, pc, net, loc, sent, ret, hist, start, failed, calls,
                   ticks, faults, arrays, cacheArray>>

\* a caller assigns to an element of the Hostnames of the rule it holds: the
\* element is in the backing array, which the slices of the cached rule and
\* of the configuration may point to as well
MutateHostname(c, i, hostname) ==
    /\ held[c] # NilRule
    /\ i \in 1..Len(arrays[held[c].Hostnames])
    /\ arrays[held[c].Hostnames][i] # hostname
    /\ arrays' = [arrays EXCEPT ![held[c].Hostnames][i] = hostname]
    /\ currentRule' = [currentRule EXCEPT !.Hostnames = arrays'[cacheArray]]
    /\ config' = [config EXCEPT !.DestHostnames = arrays'["config"]]
    /\ UNCHANGED <<auxVars, remote, rulesetID, writers, readers, stopCh, stoppedCh, pc, net,
                   loc, sent, ret, hist, start, failed, calls, ticks, faults,
                   cacheArray, held>>

NextCopy ==
    \/ \E c \in Callers : CopyGetCurrentRule(c)
    \/ \E c \in Callers, enabled \in BOOLEAN : CopyToggleRule(c, enabled)
    \/ \E c \in Callers, hostnames \in HostInputs : CopyUpdateHosts(c, hostnames)
    \/ \E c \in Callers : MutateEnabled(c)
    \/ \E c \in Callers, i \in 1..2, hostname \in Overwrites : MutateHostname(c, i, hostname)

SpecCopy == InitCopy /\ [][NextCopy]_vars

(***************************************************************************)
(* internal/cloudflare: makeRequest, the retry loop every client operation *)
(* sends its request through.  One client operation runs at a time; the    *)
(* remote side answers every attempt as it likes, the transport can fail,  *)
(* and the caller can cancel the context at any moment.                    *)
(***************************************************************************)
ClientOps == {"GetEntrypointRuleset", "CreateEntrypointRuleset", "AddRule", "UpdateRule"}

\* values of the Retry-After header: absent, not an integer, within the ceiling,
\* at the ceiling, above it
RetryAfterValues ==
    { <<>>, <<"x">>, <<"5">>, <<"6", "0">>, <<"6", "1">>, <<"1", "2", "0">> }

RateLimitedError == "rate limited and retry would take too long"

\* the answers of the remote side to one attempt
RemoteAnswers(op) ==
    LET accepted == IF op \in {"GetEntrypointRuleset", "CreateEntrypointRuleset"}
                    THEN [ID |-> RulesetIDs[1], Rules |-> <<>>]
                    ELSE CloudflareRule(RuleIDs[1], "false", RuleDescription, TRUE, 1)
    IN  { Response(StatusOK, TRUE, accepted),
          Response(StatusOK, FALSE, NilRule),
          [Response(StatusOK, FALSE, NilRule) EXCEPT
             !.errors = <<AuthenticationError,
                          [code |-> 10014, message |-> "ruleset error"]>>],
          Response(StatusUnauthorized, FALSE, NilRule),
          Response(StatusNotFound, FALSE, NilRule) }
        \cup { [Response(StatusTooManyRequests, FALSE, NilRule) EXCEPT
                  !.retryAfter = hint] : hint \in RetryAfterValues }

\* what httpClient.Do returns, (nil, err) or (resp, nil); a request whose
\* context is done is not sent: Do returns the context's error
DoResults(op) ==
    IF ctxDone THEN { [err |-> "context canceled", resp |-> NoResponse] }
    ELSE { [err |-> "connection refused", resp |-> NoResponse] }
         \cup { [err |-> NoError, resp |-> resp] : resp \in RemoteAnswers(op) }

\* what the operation makes of the response makeRequest returned
Operation(op, resp) ==
    CASE op = "GetEntrypointRuleset" -> GetEntrypointRuleset(resp)
      [] op = "CreateEntrypointRuleset" -> CreateEntrypointRuleset(resp)
      [] op = "AddRule" -> AddRule(resp)
      [] op = "UpdateRule" -> UpdateRule(resp)

FailedTo(op) ==
    CASE op = "GetEntrypointRuleset" -> "failed to get entrypoint ruleset"
      [] op = "CreateEntrypointRuleset" -> "failed to create entrypoint ruleset"
      [] op = "AddRule" -> "failed to add rule"
      [] op = "UpdateRule" -> "failed to update rule"

\* what the operation returns when makeRequest returned an error
OperationError(op, err) == Result(NilRule, Errorf(FailedTo(op), err))

\* mutant: the ceiling on the hinted wait is not applied
RetryWithoutCeiling(resp) ==
    resp.retryAfter # <<>> /\ Atoi(resp.retryAfter).ok

\* the rate-limited attempt is retried after the hinted wait
ShouldRetry(resp) ==
    /\ resp.retryAfter # <<>>
    /\ Atoi(resp.retryAfter).ok
    /\ Atoi(resp.retryAfter).n <= maxRetryWaitSeconds

\* mutant: the same wait after every transport failure
ConstantBackoff(a) == 1

\* seconds slept after a transport failure of the attempt with loop variable a
TransportBackoff(a) == a + 1

\* a client operation is called with a live context
ClientCall(op) ==
    /\ clientPC \in {"idle", "done"}
    /\ clientPC' = "do"
    /\ clientOp' = op
    /\ attempt' = 0
    /\ httpResp' = NoResponse
    /\ ctxDone' = FALSE
    /\ tried' = <<>>
    /\ slept' = <<>>
    /\ clientRet' = [op |-> "none"]
    /\ UNCHANGED besideClient

\* mutant: an answer with a failure status is retried like a transport failure
DoRetryingFailures(result) ==
    /\ clientPC = "do"
    /\ tried' = Append(tried, result)
    /\ httpResp' = result.resp
    /\ IF result.err # NoError \/ result.resp.status \notin {StatusOK, StatusTooManyRequests}
       THEN IF attempt = maxRetries - 1
            THEN /\ clientPC' = "done"
                 /\ clientRet' =
                      IF result.err # NoError
                      THEN OperationError(clientOp,
                                          Errorf("request failed after "
                                                 \o ToString(maxRetries) \o " attempts",
                                                 result.err))
                      ELSE Operation(clientOp, result.resp)
                 /\ UNCHANGED slept
            ELSE /\ clientPC' = "sleep"
                 /\ slept' = Append(slept, TransportBackoff(attempt))
                 /\ UNCHANGED clientRet
       ELSE IF result.resp.status = StatusTooManyRequests
            THEN IF ShouldRetry(result.resp)
                 THEN /\ clientPC' = "sleep"
                      /\ slept' = Append(slept, Atoi(result.resp.retryAfter).n)
                      /\ UNCHANGED clientRet
                 ELSE /\ clientPC' = "done"
                      /\ clientRet' = OperationError(clientOp, RateLimitedError)
                      /\ UNCHANGED slept
            ELSE /\ clientPC' = "done"
                 /\ clientRet' = Operation(clientOp, result.resp)
                 /\ UNCHANGED slept
    /\ UNCHANGED <<besideClient, clientOp, attempt, ctxDone>>

\* one iteration of the loop, up to its sleep, its break or its return
Do(result) ==
    /\ clientPC = "do"
    /\ tried' = Append(tried, result)
    /\ httpResp' = result.resp
    /\ IF result.err # NoError
       THEN IF attempt = maxRetries - 1
            THEN /\ clientPC' = "done"
                 /\ clientRet' =
                      OperationError(clientOp,
                                     Errorf("request failed after " \o ToString(maxRetries)
                                            \o " attempts", result.err))
                 /\ UNCHANGED slept
            ELSE /\ clientPC' = "sleep"
                 /\ slept' = Append(slept, TransportBackoff(attempt))
                 /\ UNCHANGED clientRet
       ELSE IF result.resp.status = StatusTooManyRequests
            THEN IF ShouldRetry(result.resp)
                 THEN /\ clientPC' = "sleep"
                      /\ slept' = Append(slept, Atoi(result.resp.retryAfter).n)
                      /\ UNCHANGED clientRet
                 ELSE /\ clientPC' = "done"
                      /\ clientRet' = OperationError(clientOp, RateLimitedError)
                      /\ UNCHANGED slept
            ELSE /\ clientPC' = "done"
                 /\ clientRet' = Operation(clientOp, result.resp)
                 /\ UNCHANGED slept
    /\ UNCHANGED <<besideClient, clientOp, attempt, ctxDone>>

\* mutant: the loop has no bound on its attempts
WakeUnbounded ==
    /\ clientPC = "sleep"
    /\ attempt' = attempt + 1
    /\ clientPC' = "do"
    /\ UNCHANGED <<besideClient, clientOp, httpResp, ctxDone, tried, slept, clientRet>>

\* time.Sleep returns and the loop continues; after the last iteration
\* makeRequest returns resp and the operation reads it
Wake ==
    /\ clientPC = "sleep"
    /\ attempt' = attempt + 1
    /\ IF attempt + 1 = maxRetries
       THEN /\ clientPC' = "done"
            /\ clientRet' = Operation(clientOp, httpResp)
       ELSE /\ clientPC' = "do"
            /\ UNCHANGED clientRet
    /\ UNCHANGED <<besideClient, clientOp, httpResp, ctxDone, tried, slept>>

\* the caller cancels the context, or its deadline passes
Cancel ==
    /\ clientPC \in {"do", "sleep"}
    /\ ~ctxDone
    /\ ctxDone' = TRUE
    /\ UNCHANGED <<besideClient, clientPC, clientOp, attempt, httpResp, tried, slept,
                   clientRet>>

\* the reconciler before Start, in a zone without an entrypoint ruleset
Parked ==
    /\ ReconcilerInit
    /\ config.CFRuleDefaultEnabled
    /\ ~remote.exists

\* nothing has been called yet
InitIdle ==
    /\ Parked
    /\ AuxInit

NextClient ==
    \/ \E op \in ClientOps : ClientCall(op)
    \/ \E result \in DoResults(clientOp) : Do(result)
    \/ Wake
    \/ Cancel

SpecClient == InitIdle /\ [][NextClient]_vars

\* Scheduling: httpClient.Do returns, with an answer or, after defaultTimeout
\* at the latest, with an error; time.Sleep returns.
SpecClientLive ==
    /\ InitIdle
    /\ [][NextClient]_vars
    /\ WF_vars(\E result \in DoResults(clientOp) : Do(result))
    /\ WF_vars(Wake)

(***************************************************************************)
(* The functions FlexibleInt.UnmarshalJSON, ParseHostnames and             *)
(* BuildExpression of pkg/types and FindRuleByDescription of               *)
(* internal/cloudflare, each applied to an input drawn when the behaviour  *)
(* starts.                                                                 *)
(***************************************************************************)
\* all texts over an alphabet, up to a length
Texts(alphabet, n) == UNION { [1..k -> alphabet] : k \in 0..n }

JSONNull == <<"n", "u", "l", "l">>

NoOutput == [fn |-> "none"]

\* json.Unmarshal(data, &intVal): data is a JSON number without fraction and
\* exponent
UnmarshalInt(data) ==
    LET digits == IF data # <<>> /\ Head(data) = "-" THEN Tail(data) ELSE data
    IN  IF /\ digits # <<>>
           /\ \A i \in 1..Len(digits) : DigitValue(digits[i]) >= 0
           /\ (Len(digits) > 1 => Head(digits) # "0")
        THEN [ok |-> TRUE, val |-> Atoi(data).n]
        ELSE [ok |-> FALSE, val |-> 0]

\* json.Unmarshal(data, &strVal): data is a JSON string
UnmarshalString(data) ==
    IF /\ Len(data) >= 2
       /\ Head(data) = "\""
       /\ Last(data) = "\""
       /\ \A i \in 2..(Len(data) - 1) : data[i] # "\""
    THEN [ok |-> TRUE, val |-> SubSeq(data, 2, Len(data) - 1)]
    ELSE [ok |-> FALSE, val |-> <<>>]

\* mutant: a string that is no integer is taken as 0
UnmarshalJSONLenient(data) ==
    IF data = JSONNull THEN [fi |-> 0, err |-> NoError]
    ELSE IF UnmarshalInt(data).ok THEN [fi |-> UnmarshalInt(data).val, err |-> NoError]
    ELSE IF ~UnmarshalString(data).ok
         THEN [fi |-> 0, err |-> "version must be either int or string, got: " \o Str(data)]
    ELSE [fi |-> Atoi(UnmarshalString(data).val).n, err |-> NoError]

\* FlexibleInt.UnmarshalJSON on a zero FlexibleInt
UnmarshalJSON(data) ==
    IF data = JSONNull THEN [fi |-> 0, err |-> NoError]
    ELSE IF UnmarshalInt(data).ok THEN [fi |-> UnmarshalInt(data).val, err |-> NoError]
    ELSE IF ~UnmarshalString(data).ok
         THEN [fi |-> 0, err |-> "version must be either int or string, got: " \o Str(data)]
    ELSE LET strVal == UnmarshalString(data).val
         IN  IF ~Atoi(strVal).ok
             THEN [fi |-> 0,
                   err |-> "version string \"" \o Str(strVal)
                           \o "\" is not a valid integer"]
             ELSE [fi |-> Atoi(strVal).n, err |-> NoError]

\* strings.Join(l, ",")
RECURSIVE JoinComma(_)
JoinComma(l) ==
    IF l = <<>> THEN <<>>
    ELSE IF Len(l) = 1 THEN Head(l)
    ELSE Head(l) \o <<",">> \o JoinComma(Tail(l))

ApplyUnmarshalJSON ==
    /\ typesIn.fn = "UnmarshalJSON"
    /\ typesOut = NoOutput
    /\ typesOut' = UnmarshalJSON(typesIn.arg)
    /\ UNCHANGED <<besideTypes, typesIn>>

ApplyParseHostnames ==
    /\ typesIn.fn = "ParseHostnames"
    /\ typesOut = NoOutput
    /\ typesOut' = [list |-> ParseHostnames(typesIn.arg)]
    /\ UNCHANGED <<besideTypes, typesIn>>

\* the list that ParseHostnames returned, joined with commas, is parsed again
ApplyParseHostnamesAgain ==
    /\ typesIn.fn = "ParseHostnames"
    /\ typesOut # NoOutput
    /\ typesIn' = [fn |-> "ParseHostnames", arg |-> JoinComma(typesOut.list),
                   joined |-> typesOut.list]
    /\ typesIn' # typesIn
    /\ typesOut' = [list |-> ParseHostnames(typesIn'.arg)]
    /\ UNCHANGED besideTypes

ApplyBuildExpression ==
    /\ typesIn.fn = "BuildExpression"
    /\ typesOut = NoOutput
    /\ typesOut' = [expression |-> BuildExpression(typesIn.arg)]
    /\ UNCHANGED <<besideTypes, typesIn>>

ApplyFindRuleByDescription ==
    /\ typesIn.fn = "FindRuleByDescription"
    /\ typesOut = NoOutput
    /\ typesOut' = [rule |-> FindRuleByDescription(typesIn.ruleset, typesIn.description)]
    /\ UNCHANGED <<besideTypes, typesIn>>

InitTypes ==
    /\ Parked
    /\ ClientIdle
    /\ ServerIdle
    /\ typesIn \in
         \* JSON documents, and texts that are none, over digits, signs, the
         \* point, the quote and a letter; and some longer ones
         { [fn |-> "UnmarshalJSON", arg |-> data] :
             data \in Texts({"0", "1", "-", "+", ".", "\"", "a"}, MaxJSONLen)
                      \cup { JSONNull,
                             <<"t", "r", "u", "e">>,
                             <<"f", "a", "l", "s", "e">>,
                             <<"\"", "1", ".", "1", "\"">>,
                             <<"\"", "-", "1", "0", "1", "\"">>,
                             <<"-", "1", "0", "1", "1">> } }
         \cup { [fn |-> "ParseHostnames", arg |-> hostnames, joined |-> <<>>] :
                  hostnames \in Texts({"a", "B", " ", ","}, MaxTextLen) }
         \* lists in any order, with duplicates
         \cup { [fn |-> "BuildExpression", arg |-> hostnames] :
                  hostnames \in UNION { [1..k -> {HostA, HostB, <<"b", "a">>}] :
                                          k \in 0..MaxHosts } }
         \* rulesets whose rules carry the marker, a text that differs from it
         \* in case, one that it is a prefix of, another one or none
         \cup { [fn |-> "FindRuleByDescription",
                 ruleset |-> [ID |-> RulesetIDs[1],
                              Rules |-> [i \in 1..Len(ds) |->
                                           CloudflareRule(ToString(i), "false", ds[i],
                                                          TRUE, i)]],
                 description |-> d] :
                  ds \in UNION { [1..k -> {RuleDescription, "CF-Switch:Global",
                                           "cf-switch:global-2", "other", ""}] :
                                   k \in 0..MaxRules },
                  d \in {RuleDescription, "other"} }
    /\ typesOut = NoOutput

NextTypes ==
    \/ ApplyUnmarshalJSON
    \/ ApplyParseHostnames
    \/ ApplyParseHostnamesAgain
    \/ ApplyBuildExpression
    \/ ApplyFindRuleByDescription

SpecTypes == InitTypes /\ [][NextTypes]_vars

(***************************************************************************)
(* internal/server: the routes of NewServer, the authentication middleware *)
(* and the rule handlers.  A path is the sequence of its segments.  The    *)
(* body of a request is the first JSON value it holds, if it begins with   *)
(* one, and whether more data follows it: json.Decoder.Decode reads the    *)
(* first value and leaves the rest unread.  The handlers see the           *)
(* reconciler through the RuleReconciler interface: a call returns a rule  *)
(* or an error.                                                            *)
(***************************************************************************)
\* the token NewServer is given
AuthToken == <<"t", "1">>

bearerPrefix == <<"B", "e", "a", "r", "e", "r", " ">>

\* values of the Authorization header: absent, the token after "Bearer ",
\* other tokens after it, other schemes, no scheme
AuthorizationValues ==
    { <<>>,
      bearerPrefix \o AuthToken,
      bearerPrefix \o <<"t", "2">>,
      bearerPrefix \o <<"t">>,
      bearerPrefix \o AuthToken \o <<"x">>,
      bearerPrefix,
      <<"b", "e", "a", "r", "e", "r", " ">> \o AuthToken,
      <<"B", "a", "s", "i", "c", " ">> \o AuthToken,
      AuthToken }

HealthPaths == { <<"healthz">>, <<"readyz">>, <<"metrics">> }
RulePath == <<"v1", "rule">>
EnablePath == <<"v1", "rule", "enable">>
HostsPath == <<"v1", "rule", "hosts">>
\* a JSON value, with its content in the field named as its kind: the text of
\* a string, the elements of an array, the fields of an object
JSON(kind, val) == [kind |-> kind] @@ (kind :> val)

\* a request body: the JSON value it begins with, and whether data that is
\* not white space follows it
Body(doc, more) == [doc |-> doc, more |-> more]

\* a body that does not begin with a JSON value (an empty body is one)
Malformed == Body(JSON("none", <<>>), FALSE)

HostsDocument(hostnames) ==
    JSON("object", "hostnames" :> JSON("array", [i \in 1..Len(hostnames) |->
                                                  JSON("string", hostnames[i])]))

Bodies ==
    { Malformed,
      Body(HostsDocument(<<HostB>>), FALSE),
      Body(HostsDocument(<<HostB, HostA>>), FALSE),
      Body(HostsDocument(<<>>), FALSE),
      Body(JSON("object", <<>>), FALSE),
      Body(JSON("object", "hostnames" :> JSON("null", <<>>)), FALSE),
      Body(JSON("object", "hostnames" :> JSON("string", HostB)), FALSE),
      Body(JSON("null", <<>>), FALSE),
      Body(JSON("array", <<JSON("string", HostB)>>), FALSE),
      Body(JSON("object", "enabled" :> JSON("bool", TRUE)), FALSE),
      Body(JSON("object", "enabled" :> JSON("string", HostB)), FALSE),
      Body(HostsDocument(<<HostB>>), TRUE) }

\* the requests: three methods, the routes and paths beside them; a body is
\* sent to the routes that read one
Requests ==
    { r \in [method : {"GET", "POST", "PUT"},
             path : HealthPaths \cup { RulePath, EnablePath, HostsPath, <<"v1", "other">>,
                                       <<"v1">>, <<"other">> },
             authorization : AuthorizationValues,
             body : Bodies] :
        r.path \notin {EnablePath, HostsPath} => r.body = Malformed }

\* what a call of the RuleReconciler returns
ReconcilerOutcomes ==
    { Result(CachedFrom(CloudflareRule(RuleIDs[1], BuildExpression(<<HostB>>),
                                       RuleDescription, TRUE, 1), <<HostB>>), NoError),
      Result(NilRule, "failed to update rule") }

HasPrefix(t, prefix) ==
    Len(t) >= Len(prefix) /\ SubSeq(t, 1, Len(prefix)) = prefix

TrimPrefix(t, prefix) ==
    IF HasPrefix(t, prefix) THEN SubSeq(t, Len(prefix) + 1, Len(t)) ELSE t

StatusText(statusCode) ==
    CASE statusCode = StatusBadRequest -> "Bad Request"
      [] statusCode = StatusUnauthorized -> "Unauthorized"
      [] statusCode = StatusMethodNotAllowed -> "Method Not Allowed"
      [] statusCode = StatusInternalServerError -> "Internal Server Error"

\* what serving a request comes to: the response, the handler that wrote it
\* and the calls made to the RuleReconciler
Served(by, statusCode, data, made) ==
    [written |-> [status |-> statusCode, body |-> data, by |-> by], called |-> made]

writeErrorResponse(by, statusCode, message) ==
    Served(by, statusCode, [error |-> StatusText(statusCode), message |-> message], <<>>)

RuleResponse(rule) ==
    [rule_id |-> rule.ID, enabled |-> rule.Enabled, expression |-> rule.Expression,
     hostnames |-> rule.Hostnames, description |-> rule.Description,
     version |-> rule.Version]

\* json.NewDecoder(r.Body).Decode(&req) for a types.ToggleRequest
DecodeToggleRequest(body) ==
    LET doc == body.doc
    IN  IF doc.kind = "null" THEN [ok |-> TRUE, Enabled |-> FALSE]
        ELSE IF doc.kind # "object" THEN [ok |-> FALSE, Enabled |-> FALSE]
        ELSE IF "enabled" \notin DOMAIN doc.object THEN [ok |-> TRUE, Enabled |-> FALSE]
        ELSE IF doc.object["enabled"].kind = "null" THEN [ok |-> TRUE, Enabled |-> FALSE]
        ELSE IF doc.object["enabled"].kind = "bool"
             THEN [ok |-> TRUE, Enabled |-> doc.object["enabled"].bool]
        ELSE [ok |-> FALSE, Enabled |-> FALSE]

\* json.NewDecoder(r.Body).Decode(&req) for a types.UpdateHostsRequest
DecodeUpdateHostsRequest(body) ==
    LET doc == body.doc
    IN  IF doc.kind = "null" THEN [ok |-> TRUE, Hostnames |-> <<>>]
        ELSE IF doc.kind # "object" THEN [ok |-> FALSE, Hostnames |-> <<>>]
        ELSE IF "hostnames" \notin DOMAIN doc.object THEN [ok |-> TRUE, Hostnames |-> <<>>]
        ELSE LET list == doc.object["hostnames"]
             IN  IF list.kind = "null" THEN [ok |-> TRUE, Hostnames |-> <<>>]
                 ELSE IF /\ list.kind = "array"
                         /\ \A i \in 1..Len(list.array) : list.array[i].kind = "string"
                      THEN [ok |-> TRUE,
                            Hostnames |-> [i \in 1..Len(list.array) |-> list.array[i].string]]
                 ELSE [ok |-> FALSE, Hostnames |-> <<>>]

GetRule(r, outcome) ==
    LET call == [op |-> "GetCurrentRule", arg |-> <<>>, ret |-> outcome]
    IN  IF outcome.err # NoError
        THEN [writeErrorResponse("GetRule", StatusInternalServerError,
                                 "Failed to get rule") EXCEPT !.called = <<call>>]
        ELSE Served("GetRule", StatusOK, RuleResponse(outcome.val), <<call>>)

ToggleRuleHandler(r, outcome) ==
    LET req == DecodeToggleRequest(r.body)
        call == [op |-> "ToggleRule", arg |-> req.Enabled, ret |-> outcome]
    IN  IF ~req.ok
        THEN writeErrorResponse("ToggleRule", StatusBadRequest, "Invalid request body")
        ELSE IF outcome.err # NoError
        THEN [writeErrorResponse("ToggleRule", StatusInternalServerError,
                                 "Failed to toggle rule") EXCEPT !.called = <<call>>]
        ELSE Served("ToggleRule", StatusOK, RuleResponse(outcome.val), <<call>>)

UpdateHostsHandler(r, outcome) ==
    LET req == DecodeUpdateHostsRequest(r.body)
        call == [op |-> "UpdateHosts", arg |-> req.Hostnames, ret |-> outcome]
    IN  IF ~req.ok
        THEN writeErrorResponse("UpdateHosts", StatusBadRequest, "Invalid request body")
        ELSE IF Len(req.Hostnames) = 0
        THEN writeErrorResponse("UpdateHosts", StatusBadRequest,
                                "Hostnames list cannot be empty")
        ELSE IF outcome.err # NoError
        THEN [writeErrorResponse("UpdateHosts", StatusInternalServerError,
                                 "Failed to update hosts") EXCEPT !.called = <<call>>]
        ELSE Served("UpdateHosts", StatusOK, RuleResponse(outcome.val), <<call>>)

\* http.NotFound, the answer of a ServeMux that has no pattern for the path
NotFound == Served("mux", StatusNotFound, "404 page not found", <<>>)

\* apiMux and the method checks of its routes
APIMux(r, outcome) ==
    CASE r.path = RulePath ->
           IF r.method # "GET"
           THEN writeErrorResponse("mux", StatusMethodNotAllowed, "Method not allowed")
           ELSE GetRule(r, outcome)
      [] r.path = EnablePath ->
           IF r.method # "POST"
           THEN writeErrorResponse("mux", StatusMethodNotAllowed, "Method not allowed")
           ELSE ToggleRuleHandler(r, outcome)
      [] r.path = HostsPath ->
           IF r.method # "PUT"
           THEN writeErrorResponse("mux", StatusMethodNotAllowed, "Method not allowed")
           ELSE UpdateHostsHandler(r, outcome)
      [] OTHER -> NotFound

\* mutant: the scheme of the Authorization header is not looked at
AnyScheme(authHeader) == TRUE

HasBearerPrefix(authHeader) == HasPrefix(authHeader, bearerPrefix)

\* AuthMiddleware.Middleware around apiMux
Middleware(r, outcome) ==
    IF r.path \in HealthPaths THEN APIMux(r, outcome)
    ELSE IF r.authorization = <<>>
    THEN writeErrorResponse("auth", StatusUnauthorized, "Missing Authorization header")
    ELSE IF ~HasBearerPrefix(r.authorization)
    THEN writeErrorResponse("auth", StatusUnauthorized,
                            "Invalid Authorization header format")
    ELSE IF TrimPrefix(r.authorization, bearerPrefix) # AuthToken
    THEN writeErrorResponse("auth", StatusUnauthorized, "Invalid token")
    ELSE APIMux(r, outcome)

\* the routes of the server's mux; it redirects /v1 to the subtree /v1/
Mux(r, outcome) ==
    CASE r.path = <<"healthz">> -> Served("Health", StatusOK, [status |-> "ok"], <<>>)
      [] r.path = <<"readyz">> -> Served("Ready", StatusOK, [status |-> "ready"], <<>>)
      [] r.path = <<"metrics">> -> Served("promhttp", StatusOK, "metrics", <<>>)
      [] r.path = <<"v1">> -> Served("mux", StatusMovedPermanently, "/v1/", <<>>)
      [] Head(r.path) = "v1" /\ r.path # <<"v1">> -> Middleware(r, outcome)
      [] OTHER -> NotFound

\* the server handles a request, from metricsMiddleware to the written response
ServeHTTP(r, outcome) ==
    /\ handled.path = <<>>
    /\ handled' = r
    /\ written' = Mux(r, outcome).written
    /\ called' = Mux(r, outcome).called
    /\ UNCHANGED besideServer

\* the response is sent; the server waits for the next request
ResponseSent ==
    /\ handled.path # <<>>
    /\ handled' = [path |-> <<>>]
    /\ written' = [status |-> 0]
    /\ called' = <<>>
    /\ UNCHANGED besideServer

NextServer ==
    \/ \E r \in Requests, outcome \in ReconcilerOutcomes : ServeHTTP(r, outcome)
    \/ ResponseSent

SpecServer == InitIdle /\ [][NextServer]_vars

(***************************************************************************)
(* Positions and requests the properties speak of.                         *)
(***************************************************************************)
\* a pass is in progress: from its first remote call to its cache mutation
PassInProgress(p) ==
    pc[p] \in {"get_sent", "create_sent", "have_ruleset", "add_sent", "upd_sent",
               "commit"}

\* no pass has succeeded yet: the initial pass of Start has not cached a rule
NotYetReconciled ==
    pc[Main] \in {"init", "get_sent", "create_sent", "have_ruleset", "add_sent",
                  "upd_sent", "commit", "pass_err", "start_failed"}

\* every pass and call has returned
Quiescent ==
    /\ pc[Main] \in {"started", "stopping", "stopped"}
    /\ pc[Loop] \in {"idle", "exited"}
    /\ \A c \in Callers : pc[c] = "idle"

IsMutation(req) == req.op \in {"AddRule", "UpdateRule"}

\* the goroutines with an AddRule or UpdateRule request in flight
MutationsInFlight == {p \in Procs : net[p].state # "idle" /\ IsMutation(net[p].req)}

\* the managed rule as the remote side holds it
RemoteRule == FindRuleByDescription(remote, RuleDescription)

\* pass p caches its rule in this step
Caches(p) == pc[p] = "commit" /\ pc'[p] = "pass_ok"

\* the remote side answers the request of p in this step
Answers(p) == net[p].state = "sent" /\ net'[p].state = "answered"

(***************************************************************************)
(* C1: in every reachable state at most one AddRule or UpdateRule request  *)
(* for the managed rule is in flight, whatever the interleaving of the     *)
(* passes with ToggleRule and UpdateHosts calls.                           *)
(* Violated: reconcileOnce sends its request without holding the mutex.    *)
(***************************************************************************)
C1_OneMutationInFlight == Cardinality(MutationsInFlight) <= 1

(***************************************************************************)
(* C2: concurrent ToggleRule and UpdateHosts calls are serialized: when no *)
(* call is between the remote side's answer and its cache update, the      *)
(* cached rule is the rule the last pass cached with the successful calls  *)
(* applied one after another, in the order the remote side applied them;   *)
(* no field written by one call is lost to another.                        *)
(***************************************************************************)
C2_CallsSerialized ==
    (\A c \in Callers : net[c].state # "answered") => currentRule = hist

\* two calls, a ToggleRule after an UpdateHosts, have both succeeded
C2_Witness ==
    /\ calls = 2
    /\ ~failed
    /\ \A c \in Callers : pc[c] = "idle"
    /\ ret.op = "ToggleRule"
    /\ ret.err = NoError
    /\ currentRule.Hostnames # config.DestHostnames
    /\ currentRule = hist

(***************************************************************************)
(* C3: a pass and an explicit call never interleave their read-modify-     *)
(* write sequences: once all of them have returned successfully, the       *)
(* cached enabled, expression and version are those of the remote rule.    *)
(* Violated: a pass caches what it read before a call changed the rule.    *)
(***************************************************************************)
C3_CacheMatchesRemote ==
    (Quiescent /\ ~failed /\ currentRule # NilRule) =>
        /\ RemoteRule # NilRule
        /\ currentRule.Enabled = RemoteRule.Enabled
        /\ currentRule.Expression = RemoteRule.Expression
        /\ currentRule.Version = RemoteRule.Version

(***************************************************************************)
(* C4: GetCurrentRule never reads the cache while a write (a pass, a       *)
(* ToggleRule or an UpdateHosts) is in progress.                           *)
(* Violated: a pass holds the mutex only while it assigns to the cache.    *)
(***************************************************************************)
C4_NoReadDuringWrite ==
    \A c \in Callers : pc[c] = "reading" =>
        /\ \A p \in Passers : ~PassInProgress(p)
        /\ \A d \in Callers : pc[d] \notin {"toggling", "updating"}

(***************************************************************************)
(* C5: when a pass returns an error, the cached rule and ruleset id are    *)
(* what they were when the pass began (no call having changed the cache    *)
(* in between).                                                            *)
(* Violated: the ruleset id is stored before ensureRule can fail.          *)
(***************************************************************************)
C5_FailedPassKeepsCache ==
    \A p \in Passers : (pc[p] = "pass_err" /\ ~start[p].dirty) =>
        /\ currentRule = start[p].rule
        /\ rulesetID = start[p].rulesetID

(***************************************************************************)
(* C6: a pass whose get request is answered "not found" does not fail for  *)
(* it: it creates the entrypoint ruleset and goes on.                      *)
(* Violated: GetEntrypointRuleset returns an error for 404, and            *)
(* ensureEntrypointRuleset returns every error.                            *)
(***************************************************************************)
C6_NotFoundCreates ==
    \A p \in Passers :
        pc[p] = "pass_err" => loc[p].err # "entrypoint ruleset not found"

(***************************************************************************)
(* C7: a successful pass that found no rule with the marker description in *)
(* the ruleset has issued exactly one AddRule, carrying the marker, the    *)
(* configured default-enabled flag and BuildExpression(configured          *)
(* hostnames), and no UpdateRule; it caches the rule the remote side       *)
(* created.                                                                *)
(***************************************************************************)
C7_CreatesOneRule ==
    [][\A p \in Passers :
         (Caches(p) /\ FindRuleByDescription(loc[p].ruleset, RuleDescription) = NilRule) =>
            /\ sent[p] = <<GetRequest,
                           AddRequest(loc[p].ruleset.ID,
                                      CloudflareRule("", BuildExpression(config.DestHostnames),
                                                     RuleDescription,
                                                     config.CFRuleDefaultEnabled, 0))>>
            /\ RemoteRule # NilRule
            /\ currentRule' = CachedFrom(RemoteRule, config.DestHostnames)
            /\ currentRule'.ID # ""
            /\ currentRule'.Description = RuleDescription
            /\ currentRule'.Enabled = config.CFRuleDefaultEnabled
            /\ currentRule'.Expression = BuildExpression(config.DestHostnames)]_vars

\* a pass that found no managed rule has cached the rule it created, enabled
\* as configured
C7_Witness ==
    \E p \in Passers :
        /\ pc[p] = "pass_ok"
        /\ FindRuleByDescription(loc[p].ruleset, RuleDescription) = NilRule
        /\ Len(sent[p]) = 2
        /\ sent[p][2].op = "AddRule"
        /\ config.CFRuleDefaultEnabled
        /\ currentRule # NilRule
        /\ currentRule.ID = loc[p].res.ID

(***************************************************************************)
(* C8: a successful pass that found the managed rule with another          *)
(* expression than BuildExpression(configured hostnames) has issued        *)
(* exactly one UpdateRule, with the field set {expression}; no pass sends  *)
(* the enabled field, and no request of a pass changes the remote enabled  *)
(* value.                                                                  *)
(***************************************************************************)
C8_PatchesOnlyExpression ==
    [][\A p \in Passers :
         LET existingRule == FindRuleByDescription(loc[p].ruleset, RuleDescription)
             expectedExpression == BuildExpression(config.DestHostnames)
         IN  /\ (Caches(p) /\ existingRule # NilRule
                   /\ existingRule.Expression # expectedExpression) =>
                    sent[p] = <<GetRequest,
                                UpdateRequest(loc[p].ruleset.ID, existingRule.ID,
                                              "expression" :> expectedExpression)>>
             /\ \A i \in 1..Len(sent'[p]) :
                    sent'[p][i].op = "UpdateRule" =>
                        DOMAIN sent'[p][i].updates = {"expression"}
             /\ (Answers(p) /\ RemoteRule # NilRule) =>
                    /\ RemoteRule' # NilRule
                    /\ RemoteRule'.Enabled = RemoteRule.Enabled]_vars

\* a pass has patched the expression of the managed rule it found
C8_Witness ==
    \E p \in Passers :
        /\ pc[p] = "pass_ok"
        /\ loc[p].existing # NilRule
        /\ loc[p].existing.Expression # BuildExpression(config.DestHostnames)
        /\ Len(sent[p]) = 2
        /\ sent[p][2].op = "UpdateRule"
        /\ RemoteRule.Expression = BuildExpression(config.DestHostnames)
        /\ RemoteRule.Enabled = loc[p].existing.Enabled

(***************************************************************************)
(* C9: a pass that found the managed rule with the expression              *)
(* BuildExpression(configured hostnames) issues no AddRule and no          *)
(* UpdateRule and caches the rule as the remote side reported it, with the *)
(* remote enabled value even when the configured default differs.          *)
(***************************************************************************)
C9_AdoptsMatchingRule ==
    [][\A p \in Passers :
         LET existingRule == FindRuleByDescription(loc[p].ruleset, RuleDescription)
         IN  (Caches(p) /\ existingRule # NilRule
                /\ existingRule.Expression = BuildExpression(config.DestHostnames)) =>
                /\ sent[p] = <<GetRequest>>
                /\ currentRule' = [ID |-> existingRule.ID,
                                   Enabled |-> existingRule.Enabled,
                                   Expression |-> existingRule.Expression,
                                   Hostnames |-> config.DestHostnames,
                                   Description |-> existingRule.Description,
                                   Version |-> existingRule.Version]]_vars

\* a pass has adopted a rule whose enabled value is not the configured default
C9_Witness ==
    \E p \in Passers :
        /\ pc[p] = "pass_ok"
        /\ sent[p] = <<GetRequest>>
        /\ loc[p].existing # NilRule
        /\ loc[p].existing.Enabled # config.CFRuleDefaultEnabled
        /\ currentRule # NilRule
        /\ currentRule.Enabled = loc[p].existing.Enabled

(***************************************************************************)
(* C10: before the first successful reconciliation GetCurrentRule,         *)
(* ToggleRule and UpdateHosts return an error and no rule, and no caller   *)
(* has a remote request in flight or has issued one.                       *)
(***************************************************************************)
C10_UninitializedFails ==
    NotYetReconciled =>
        /\ \A c \in Callers : net[c].state = "idle" /\ sent[c] = <<>>
        /\ ret.op # "none" =>
              /\ ret.err # NoError
              /\ ret.rule = NilRule
              /\ ret.reqs = <<>>

\* ToggleRule has failed while the initial pass had stored the ruleset id
\* but not yet a rule
C10_Witness ==
    /\ NotYetReconciled
    /\ rulesetID # ""
    /\ ret.op = "ToggleRule"
    /\ ret.err = "rule not initialized"

(***************************************************************************)
(* C11: the rule that GetCurrentRule, ToggleRule and UpdateHosts return is *)
(* a defensive copy: whatever a caller assigns to the value it was         *)
(* returned, elements of its hostnames list included, the cached rule (and *)
(* so the result of a later GetCurrentRule) stays as it is.                *)
(* Violated: the copy shares the backing array of Hostnames with the       *)
(* cached rule.                                                            *)
(***************************************************************************)
C11_ReturnedCopyIsolated ==
    [][(calls' = calls /\ (held' # held \/ arrays' # arrays)) =>
          UNCHANGED currentRule]_vars

(***************************************************************************)
(* C12: a successful ToggleRule(e) has sent exactly one UpdateRule, with   *)
(* the field set {enabled: e}, and changes only enabled and version of the *)
(* cached rule: id, description, hostnames and expression are what they    *)
(* were when the call began, nothing else writing the cache during the     *)
(* call.                                                                   *)
(***************************************************************************)
C12_ToggleChangesEnabledOnly ==
    [][\A c \in Callers :
         /\ (pc[c] = "toggling" /\ pc'[c] = "toggling") => UNCHANGED currentRule
         /\ (pc[c] = "toggling" /\ pc'[c] = "idle" /\ ret'.err = NoError) =>
               /\ sent[c] = <<UpdateRequest(rulesetID, currentRule.ID,
                                            "enabled" :> loc[c].arg)>>
               /\ ret'.reqs = sent[c]
               /\ currentRule' = [currentRule EXCEPT
                                    !.Enabled = loc[c].arg,
                                    !.Version = net[c].resp.result.Version]
               /\ currentRule'.ID = currentRule.ID
               /\ currentRule'.Description = currentRule.Description
               /\ currentRule'.Hostnames = currentRule.Hostnames
               /\ currentRule'.Expression = currentRule.Expression
               /\ ret'.rule = currentRule']_vars

\* a ToggleRule has succeeded and changed the enabled value of the rule
C12_Witness ==
    /\ ret.op = "ToggleRule"
    /\ ret.err = NoError
    /\ Len(ret.reqs) = 1
    /\ ret.rule.Enabled = ret.arg
    /\ ret.rule.Version = 8
    /\ RemoteRule.Enabled = ret.arg
    /\ currentRule = ret.rule
    /\ \E rs \in InitialRulesets :
          /\ FindRuleByDescription([Rules |-> rs], RuleDescription) # NilRule
          /\ FindRuleByDescription([Rules |-> rs], RuleDescription).Enabled # ret.arg
          /\ FindRuleByDescription([Rules |-> rs], RuleDescription).Expression
               = currentRule.Expression

(***************************************************************************)
(* C13: a successful UpdateHosts(h), h not empty, caches and returns the   *)
(* hostnames of h normalized element by element (trimmed, lower-cased,     *)
(* empty ones dropped, de-duplicated, sorted) and has sent exactly one     *)
(* UpdateRule,                                                             *)
(* with the field set {expression: BuildExpression(those hostnames)}.      *)
(* Violated: UpdateHosts normalizes the text fmt.Sprintf("%v", h), so the  *)
(* brackets of that text end up in the hostnames.                          *)
(***************************************************************************)
C13_HostsNormalized ==
    (ret.op = "UpdateHosts" /\ ret.err = NoError /\ ret.arg # <<>>) =>
        LET normalized == SortStrings(ParseLoop(ret.arg, <<>>))
        IN  /\ ret.rule.Hostnames = normalized
            /\ Len(ret.reqs) = 1
            /\ ret.reqs[1].op = "UpdateRule"
            /\ ret.reqs[1].updates = ("expression" :> BuildExpression(normalized))

(***************************************************************************)
(* C14: UpdateHosts(h) on an initialized reconciler, for an h whose        *)
(* normalized set is empty (h = [] or only empty and blank elements),      *)
(* returns an error and issues no remote request.                          *)
(* Violated: the text fmt.Sprintf("%v", h) is "[]" for the empty list,     *)
(* which ParseHostnames takes for a hostname.                              *)
(***************************************************************************)
C14_EmptyHostsRejected ==
    /\ \A c \in Callers :
          pc[c] = "updating" => SortStrings(ParseLoop(loc[c].arg, <<>>)) # <<>>
    /\ (ret.op = "UpdateHosts" /\ SortStrings(ParseLoop(ret.arg, <<>>)) = <<>>) =>
          /\ ret.err # NoError
          /\ ret.reqs = <<>>

(***************************************************************************)
(* C15: when the remote call of a ToggleRule or UpdateHosts fails, the     *)
(* cached rule and the ruleset id are what they were when the call began   *)
(* (nothing writes them during the call), no rule is returned, and the     *)
(* error returned is the error of the remote call wrapped with the context *)
(* of the operation.                                                       *)
(***************************************************************************)
C15_FailedCallKeepsCache ==
    [][\A c \in Callers :
         pc[c] \in {"toggling", "updating"} =>
            /\ pc'[c] = pc[c] => UNCHANGED <<currentRule, rulesetID>>
            /\ (pc'[c] = "idle" /\ UpdateRule(net[c].resp).err # NoError) =>
                  /\ UNCHANGED <<currentRule, rulesetID>>
                  /\ ret'.rule = NilRule
                  /\ ret'.err =
                        (IF pc[c] = "toggling" THEN "failed to update rule"
                         ELSE "failed to update rule expression")
                        \o ": " \o UpdateRule(net[c].resp).err]_vars

\* an UpdateHosts has failed on the answer of the remote side
C15_Witness ==
    /\ ret.op = "UpdateHosts"
    /\ Len(ret.reqs) = 1
    /\ ret.err = "failed to update rule expression: API error: "
                 \o SprintfErrors(<<AuthenticationError>>)
    /\ ret.rule = NilRule
    /\ currentRule # NilRule
    /\ currentRule.Hostnames = config.DestHostnames

(***************************************************************************)
(* C16: whenever a rule is cached, its expression is BuildExpression of    *)
(* its hostnames, after any interleaving of passes, ToggleRule and         *)
(* UpdateHosts calls and whatever expression text the remote side answers  *)
(* with.                                                                   *)
(* Violated: the passes and UpdateHosts cache the expression text of the   *)
(* remote side's answer, not the text they built.                          *)
(***************************************************************************)
C16_ExpressionOfHostnames ==
    currentRule # NilRule =>
        currentRule.Expression = BuildExpression(currentRule.Hostnames)

(***************************************************************************)
(* C17: Start runs one pass, to its end, before it returns.  When the pass *)
(* fails Start returns its error and the loop is never spawned; when it    *)
(* succeeds the loop is spawned and, at the return of Start, a rule and    *)
(* the ruleset id are cached.  The loop does not exist before Start        *)
(* returns.                                                                *)
(***************************************************************************)
C17_StartRunsOnePass ==
    [][/\ (pc'[Main] = "get_sent" /\ pc[Main] # "get_sent") => pc[Main] = "init"
       /\ (pc'[Main] = "start_failed" /\ pc[Main] # "start_failed") =>
             pc[Main] = "pass_err"
       /\ (pc'[Main] = "started" /\ pc[Main] # "started") =>
             /\ pc[Main] = "pass_ok"
             /\ pc[Loop] = "unspawned"
             /\ pc'[Loop] = "idle"
             /\ currentRule' # NilRule
             /\ rulesetID' # ""
       /\ pc'[Main] \notin {"started", "stopping", "stopped"} =>
             pc'[Loop] = "unspawned"]_vars

\* Start has returned nil: the loop waits for its first tick, a rule is cached
C17_Witness ==
    /\ pc[Main] = "started"
    /\ pc[Loop] = "idle"
    /\ ticks = 0
    /\ currentRule # NilRule
    /\ rulesetID = remote.ID

(***************************************************************************)
(* C18: once Stop has returned the loop has exited: no pass is running,    *)
(* the loop has no request in flight, and this stays so.                   *)
(***************************************************************************)
C18_StoppedMeansExited ==
    pc[Main] = "stopped" =>
        /\ pc[Loop] = "exited"
        /\ stoppedCh
        /\ ~PassInProgress(Loop)
        /\ net[Loop] = Idle
        /\ sent[Loop] = <<>>

\* Stop has returned after the loop had run a pass
C18_Witness ==
    /\ pc[Main] = "stopped"
    /\ pc[Loop] = "exited"
    /\ ticks >= 1

(***************************************************************************)
(* C19, as stated: once Stop has requested the exit, the loop exits after  *)
(* at most the pass in progress, that is, it starts no further pass.       *)
(* Violated: a select with both the stop case and a tick ready may take    *)
(* the tick.                                                               *)
(***************************************************************************)
C19_NoPassAfterStopRequest ==
    [][(stopCh /\ pc[Loop] = "idle") => pc'[Loop] \in {"idle", "exited"}]_vars

(***************************************************************************)
(* C19, amended: with the loop running, a call to Stop eventually returns, *)
(* when remote calls are answered, the mutex is granted fairly and the     *)
(* select eventually takes the stop case; the loop may start further       *)
(* passes before it exits.                                                 *)
(***************************************************************************)
C19_StopReturns == (pc[Main] = "stopping") ~> (pc[Main] = "stopped")

\* Stop waits while the loop is in the middle of a pass
C19_Witness ==
    /\ pc[Main] = "stopping"
    /\ stopCh
    /\ ~stoppedCh
    /\ PassInProgress(Loop)

(***************************************************************************)
(* C20: a failed pass of the loop does not end the loop: after it the loop *)
(* selects again, and it exits only from its select when Stop has asked    *)
(* for it; so a later tick runs a pass again, and a pass of the loop that  *)
(* succeeds caches the rule with the configured expression and hostnames.  *)
(***************************************************************************)
C20_FailedPassKeepsLoop ==
    [][/\ pc[Loop] = "pass_err" => pc'[Loop] \in {"pass_err", "idle"}
       /\ (pc'[Loop] = "exited" /\ pc[Loop] # "exited") =>
             (stopCh /\ pc[Loop] = "idle")
       /\ pc'[Loop] = "idle" => ~stoppedCh'
       /\ Caches(Loop) =>
             /\ currentRule'.Expression = BuildExpression(config.DestHostnames)
             /\ currentRule'.Hostnames = config.DestHostnames]_vars

\* the pass of the first tick has failed, the pass of the second has succeeded
C20_Witness ==
    /\ calls = 0
    /\ failed
    /\ faults >= 1
    /\ ticks = 2
    /\ pc[Loop] = "pass_ok"
    /\ currentRule.Expression = BuildExpression(config.DestHostnames)

(***************************************************************************)
(* The client's retry loop.                                                *)
(***************************************************************************)
\* C21: an attempt answered 429 is followed by a sleep, and then by a retry,
\* only if Retry-After is present, an integer and at most 60: time.Sleep is
\* then called with exactly that many seconds; if it is absent, not an
\* integer or above 60 the operation returns the rate-limited error at once,
\* without a sleep, and makes no further attempt.
C21_RateLimitedRetry ==
    [][/\ (/\ Len(tried') = Len(tried) + 1
           /\ Last(tried').resp.status = StatusTooManyRequests)
          => LET hint == Last(tried').resp.retryAfter
             IN  IF hint # <<>> /\ Atoi(hint).ok /\ Atoi(hint).n <= 60
                 THEN /\ clientPC' = "sleep"
                      /\ slept' = Append(slept, Atoi(hint).n)
                 ELSE /\ clientPC' = "done"
                      /\ clientRet'.err = Errorf(FailedTo(clientOp), RateLimitedError)
                      /\ slept' = slept
       /\ (clientPC = "sleep" /\ clientPC' # "sleep" /\ Len(tried) < maxRetries)
          => clientPC' = "do"
       /\ clientPC = "done" => tried' \in {tried, <<>>}]_vars

\* an attempt rate-limited with a hint of 60 was retried after 60 seconds, and
\* the retry, rate-limited with a hint of 120, failed at once
C21_Witness ==
    /\ clientPC = "done"
    /\ Len(tried) = 2
    /\ tried[1].resp.status = StatusTooManyRequests
    /\ tried[1].resp.retryAfter = <<"6", "0">>
    /\ tried[2].resp.status = StatusTooManyRequests
    /\ tried[2].resp.retryAfter = <<"1", "2", "0">>
    /\ slept = <<60>>
    /\ clientRet.err = Errorf(FailedTo(clientOp), RateLimitedError)

\* C22: when each of the three attempts is answered 429 with an acceptable
\* Retry-After, the operation returns the rate-limited error.
C22_ExhaustedIsRateLimited ==
    (/\ clientPC = "done"
     /\ Len(tried) = maxRetries
     /\ \A i \in 1..Len(tried) :
          /\ tried[i].resp.status = StatusTooManyRequests
          /\ tried[i].resp.retryAfter \in { <<"5">>, <<"6", "0">> })
    => clientRet.err = Errorf(FailedTo(clientOp), RateLimitedError)

\* C23: a transport failure of attempt k = 1, 2 is followed by a sleep of k
\* seconds, whatever Retry-After an earlier answer carried, and by a retry; on
\* a transport failure of attempt 3 the operation returns an error that wraps
\* the transport error; a sleep after a 429 answer is the hinted one, never k.
C23_TransportBackoff ==
    [][/\ (Len(tried') = Len(tried) + 1 /\ Last(tried').err # NoError)
          => LET k == Len(tried')
             IN  IF k < maxRetries
                 THEN /\ clientPC' = "sleep"
                      /\ slept' = Append(slept, k)
                 ELSE /\ clientPC' = "done"
                      /\ clientRet'.err =
                           Errorf(FailedTo(clientOp),
                                  Errorf("request failed after 3 attempts",
                                         Last(tried').err))
                      /\ slept' = slept
       /\ (/\ clientPC = "sleep"
           /\ clientPC' # "sleep"
           /\ Last(tried).err # NoError)
          => clientPC' = "do" /\ Len(tried) < maxRetries
       /\ (/\ Len(tried') = Len(tried) + 1
           /\ Last(tried').err = NoError
           /\ clientPC' = "sleep")
          => Last(slept') = Atoi(Last(tried').resp.retryAfter).n]_vars

\* after a rate-limited attempt with a hint of 60 the second and the third
\* attempt failed at transport level: 60 and 2 seconds were slept
C23_Witness ==
    /\ clientPC = "done"
    /\ Len(tried) = maxRetries
    /\ tried[1].resp.status = StatusTooManyRequests
    /\ tried[2].err = "connection refused"
    /\ tried[3].err = "connection refused"
    /\ slept = <<60, 2>>
    /\ clientRet.err # NoError

\* C24: when the response the operation reads has success=false in its
\* envelope, whatever its status (rate limiting apart), the operation returns
\* the API error with the envelope's error list.
C24_EnvelopeErrorsCarried ==
    (/\ clientPC = "done"
     /\ tried # <<>>
     /\ Last(tried).err = NoError
     /\ httpResp.status # StatusTooManyRequests
     /\ ~httpResp.success)
    => clientRet.err = "API error: " \o SprintfErrors(httpResp.errors)

\* C25: the first step a client operation takes once the context is done is
\* its return with an error: it begins no sleep, finishes the one it is in at
\* once and makes no attempt after it.
C25_CancelStopsClient ==
    [][(ctxDone /\ clientPC \in {"do", "sleep"} /\ clientPC' # clientPC)
       => /\ clientPC' = "done"
          /\ clientRet'.err # NoError
          /\ slept' = slept]_vars

(***************************************************************************)
(* The functions of pkg/types.                                             *)
(***************************************************************************)
\* C26: UnmarshalJSON returns n without error for a JSON integer n and for a
\* JSON string that holds a decimal integer n, 0 without error for null, and
\* an error for every other input (strings that are no integers, booleans,
\* numbers with a fraction, strings of such numbers, texts that are no JSON).
C26_FlexibleIntDecoding ==
    (typesIn.fn = "UnmarshalJSON" /\ typesOut # NoOutput) =>
        LET data == typesIn.arg
            isDigits(t) ==
                /\ t # <<>>
                /\ \A i \in 1..Len(t) :
                     t[i] \in {"0", "1", "2", "3", "4", "5", "6", "7", "8", "9"}
            unsigned(t, signs) == IF t # <<>> /\ Head(t) \in signs THEN Tail(t) ELSE t
            value(t, signs) ==
                IF t # <<>> /\ Head(t) = "-"
                THEN 0 - Digits(Tail(t)) ELSE Digits(unsigned(t, signs))
            isJSONInteger ==
                /\ isDigits(unsigned(data, {"-"}))
                /\ (Len(unsigned(data, {"-"})) > 1 => Head(unsigned(data, {"-"})) # "0")
            inner == SubSeq(data, 2, Len(data) - 1)
            isIntegerString ==
                /\ Len(data) >= 2
                /\ Head(data) = "\""
                /\ Last(data) = "\""
                /\ isDigits(unsigned(inner, {"+", "-"}))
        IN  IF data = <<"n", "u", "l", "l">>
            THEN typesOut = [fi |-> 0, err |-> NoError]
            ELSE IF isJSONInteger
            THEN typesOut = [fi |-> value(data, {"-"}), err |-> NoError]
            ELSE IF isIntegerString
            THEN typesOut = [fi |-> value(inner, {"+", "-"}), err |-> NoError]
            ELSE typesOut.err # NoError

\* the JSON string "-101" was decoded to -101
C26_Witness ==
    /\ typesIn.fn = "UnmarshalJSON"
    /\ typesIn.arg = <<"\"", "-", "1", "0", "1", "\"">>
    /\ typesOut = [fi |-> 0 - 101, err |-> NoError]

\* C27: the list ParseHostnames returns holds lowercase, trimmed, non-empty
\* and pairwise distinct hostnames in ascending order, and exactly the
\* normalized non-empty segments between the commas of the input; parsing the
\* comma-join of a returned list returns that list; the empty input gives the
\* empty list.
C27_HostnamesNormalized ==
    (typesIn.fn = "ParseHostnames" /\ typesOut # NoOutput) =>
        LET text == typesIn.arg
            list == typesOut.list
            bounds == { p \in (1..(Len(text) + 1)) \X (0..Len(text)) :
                          /\ p[2] >= p[1] - 1
                          /\ \A i \in p[1]..p[2] : text[i] # ","
                          /\ (p[1] = 1 \/ text[p[1] - 1] = ",")
                          /\ (p[2] = Len(text) \/ text[p[2] + 1] = ",") }
            lower(t) == [i \in 1..Len(t) |->
                           IF t[i] = "A" THEN "a" ELSE IF t[i] = "B" THEN "b" ELSE t[i]]
            inked(t) == { i \in 1..Len(t) : t[i] # " " }
            trimmed(t) ==
                IF inked(t) = {} THEN <<>>
                ELSE SubSeq(t, CHOOSE i \in inked(t) : \A j \in inked(t) : i <= j,
                               CHOOSE i \in inked(t) : \A j \in inked(t) : i >= j)
            normalized == { trimmed(lower(SubSeq(text, p[1], p[2]))) : p \in bounds }
        IN  /\ \A i \in 1..Len(list) :
                 /\ list[i] # <<>>
                 /\ \A k \in 1..Len(list[i]) : list[i][k] \notin {"A", "B"}
                 /\ Head(list[i]) # " "
                 /\ Last(list[i]) # " "
            /\ \A i, j \in 1..Len(list) : i < j => list[i] # list[j]
            /\ \A i \in 1..(Len(list) - 1) : TextLess(list[i], list[i + 1])
            /\ { list[i] : i \in 1..Len(list) } = normalized \ { <<>> }
            /\ typesIn.joined # <<>> => list = typesIn.joined
            /\ text = <<>> => list = <<>>

\* the comma-join of a returned list of two hostnames was parsed again
C27_Witness ==
    /\ typesIn.fn = "ParseHostnames"
    /\ typesIn.joined = <<HostA, HostB>>
    /\ typesIn.arg = <<"a", ",", "b">>
    /\ typesOut = [list |-> <<HostA, HostB>>]

\* C28: BuildExpression returns for every list: "false" for the empty one,
\* and otherwise http.host in {...} with every hostname of the list in double
\* quotes, in the order of the list, duplicates included, separated by one
\* space.
C28_ExpressionBuilt ==
    /\ (typesIn.fn = "BuildExpression" /\ typesOut = NoOutput)
       => ENABLED ApplyBuildExpression
    /\ (typesIn.fn = "BuildExpression" /\ typesOut # NoOutput) =>
          LET hostnames == typesIn.arg
              quoted(h) == "\"" \o Str(h) \o "\""
              RECURSIVE listed(_)
              listed(n) ==
                  IF n = 1 THEN quoted(hostnames[1])
                  ELSE listed(n - 1) \o " " \o quoted(hostnames[n])
          IN  typesOut.expression =
                  IF hostnames = <<>> THEN "false"
                  ELSE "http.host in {" \o listed(Len(hostnames)) \o "}"

\* an unsorted list with a duplicate was built into an expression
C28_Witness ==
    /\ typesIn.fn = "BuildExpression"
    /\ typesIn.arg = <<HostB, HostA, HostB>>
    /\ typesOut = [expression |-> "http.host in {\"b\" \"a\" \"b\"}"]

(***************************************************************************)
(* The API server.                                                         *)
(***************************************************************************)
\* C29: a request to a path under /v1/ is answered by a rule handler, and a
\* call to the RuleReconciler is made for it, only if its Authorization
\* header is "Bearer " followed by the configured token and nothing else;
\* with any other header, or none, it is answered 401 by the middleware and
\* no call is made; /healthz, /readyz and /metrics are answered 200 whatever
\* the header.
C29_BearerTokenRequired ==
    handled.path # <<>> =>
        LET authorized == handled.authorization = <<"B", "e", "a", "r", "e", "r", " ">>
                                                    \o AuthToken
            reached == written.by \in {"GetRule", "ToggleRule", "UpdateHosts"}
        IN  /\ (Len(handled.path) >= 2 /\ Head(handled.path) = "v1")
               => /\ (reached \/ called # <<>>) => authorized
                  /\ ~authorized => /\ written.status = 401
                                    /\ written.by = "auth"
                                    /\ called = <<>>
            /\ handled.path \in { <<"healthz">>, <<"readyz">>, <<"metrics">> }
               => written.status = 200 /\ called = <<>>
            /\ reached => Head(handled.path) = "v1"

\* a PUT /v1/rule/hosts with the token was answered 200 by the handler, which
\* called UpdateHosts
C29_Witness ==
    /\ handled.path = HostsPath
    /\ handled.method = "PUT"
    /\ handled.authorization = bearerPrefix \o AuthToken
    /\ written.by = "UpdateHosts"
    /\ written.status = StatusOK
    /\ Len(called) = 1

\* C30: when the body of a PUT /v1/rule/hosts that reaches the handler is not
\* valid JSON (or not a JSON value an UpdateHostsRequest can be read from), or
\* its hostnames list is empty, the answer is 400 and UpdateHosts is not
\* called; otherwise UpdateHosts is called once with the list and the answer is
\* 500 if it returns an error and 200 with the returned rule if not.
C30_UpdateHostsAnswers ==
    (handled.path # <<>> /\ written.by = "UpdateHosts") =>
        LET doc == handled.body.doc
            valid ==
                /\ doc.kind \in {"null", "object"}
                /\ ~handled.body.more
                /\ (doc.kind = "object" /\ "hostnames" \in DOMAIN doc.object)
                   => \/ doc.object["hostnames"].kind = "null"
                      \/ /\ doc.object["hostnames"].kind = "array"
                         /\ \A i \in 1..Len(doc.object["hostnames"].array) :
                              doc.object["hostnames"].array[i].kind = "string"
            hostnames ==
                IF /\ doc.kind = "object"
                   /\ "hostnames" \in DOMAIN doc.object
                   /\ doc.object["hostnames"].kind = "array"
                THEN [i \in 1..Len(doc.object["hostnames"].array) |->
                        doc.object["hostnames"].array[i].string]
                ELSE <<>>
        IN  IF ~valid \/ hostnames = <<>>
            THEN written.status = 400 /\ called = <<>>
            ELSE /\ Len(called) = 1
                 /\ called[1].op = "UpdateHosts"
                 /\ called[1].arg = hostnames
                 /\ IF called[1].ret.err # NoError
                    THEN written.status = 500
                    ELSE /\ written.status = 200
                         /\ written.body = RuleResponse(called[1].ret.val)

\* C33: FindRuleByDescription returns the rule at the lowest position whose
\* description is the text asked for, character by character, and nil when
\* the ruleset holds no such rule; a rule with another description is never
\* returned.
C33_FirstExactMatch ==
    (typesIn.fn = "FindRuleByDescription" /\ typesOut # NoOutput) =>
        LET rules == typesIn.ruleset.Rules
            matches == { i \in 1..Len(rules) : rules[i].Description = typesIn.description }
        IN  IF matches = {}
            THEN typesOut.rule = NilRule
            ELSE /\ typesOut.rule # NilRule
                 /\ typesOut.rule.Description = typesIn.description
                 /\ \E i \in matches :
                      /\ typesOut.rule = rules[i]
                      /\ \A j \in matches : i <= j

\* the marker rule at the second position was found, behind a rule whose
\* description differs in case and before another marker rule
C33_Witness ==
    /\ typesIn.fn = "FindRuleByDescription"
    /\ typesIn.description = RuleDescription
    /\ Len(typesIn.ruleset.Rules) = 3
    /\ typesIn.ruleset.Rules[1].Description = "CF-Switch:Global"
    /\ typesIn.ruleset.Rules[2].Description = RuleDescription
    /\ typesIn.ruleset.Rules[3].Description = RuleDescription
    /\ typesOut # NoOutput
    /\ typesOut.rule = typesIn.ruleset.Rules[2]

(***************************************************************************)
(* The client's retry loop, continued.                                     *)
(***************************************************************************)
\* C31: an attempt that is answered with a status other than 429, whatever
\* its envelope says, is the last one of the operation: the operation returns
\* in the same step, without a sleep, and no attempt follows its return.
C31_OtherAnswersEndOperation ==
    [][/\ (/\ Len(tried') = Len(tried) + 1
           /\ Last(tried').err = NoError
           /\ Last(tried').resp.status # 429)
          => /\ clientPC' = "done"
             /\ slept' = slept
       /\ (/\ clientPC = "done"
           /\ Last(tried).err = NoError
           /\ Last(tried).resp.status # 429)
          => tried' \in {tried, <<>>}]_vars

\* a rate-limited attempt was retried, and the retry, answered 401, ended
\* the operation
C31_Witness ==
    /\ clientPC = "done"
    /\ Len(tried) = 2
    /\ tried[1].resp.status = StatusTooManyRequests
    /\ tried[2].err = NoError
    /\ tried[2].resp.status = StatusUnauthorized
    /\ ~tried[2].resp.success
    /\ slept = <<5>>

\* C32: an operation makes at most 3 attempts and at most 3 sleeps, whatever
\* mix of transport failures and 429 answers it meets, and, httpClient.Do and
\* time.Sleep returning, an operation that was called returns.
C32_ClientTerminates ==
    /\ [](Len(tried) <= 3 /\ Len(slept) <= 3)
    /\ (clientPC \in {"do", "sleep"}) ~> (clientPC = "done")

\* an operation has returned after a transport failure and two 429 answers,
\* in this order, and three sleeps
C32_Witness ==
    /\ clientPC = "done"
    /\ Len(tried) = 3
    /\ tried[1].err # NoError
    /\ tried[2].resp.status = StatusTooManyRequests
    /\ tried[3].resp.status = StatusTooManyRequests
    /\ slept = <<1, 60, 5>>

(***************************************************************************)
(* The reconciler, continued.                                              *)
(***************************************************************************)
\* C34: at no time are two passes running: the loop does not exist while the
\* pass of Start runs, and from the tick that starts a pass of the loop to the
\* return of that pass the loop takes no other tick and does not take the stop
\* request.
C34_PassesDoNotOverlap ==
    /\ [](LET inPass(p) == PassInProgress(p) \/ pc[p] \in {"pass_ok", "pass_err"}
          IN  /\ ~(inPass(Main) /\ inPass(Loop))
              /\ (pc[Main] = "init" \/ inPass(Main)) => pc[Loop] = "unspawned")
    /\ [][/\ pc'[Loop] = "get_sent" => pc[Loop] \in {"idle", "get_sent"}
          /\ pc'[Loop] = "exited" => pc[Loop] \in {"idle", "exited"}
          /\ ticks' # ticks => pc[Loop] = "idle"]_vars

\* Stop was called while the pass of the second tick waits for the answer to
\* its request
C34_Witness ==
    /\ ticks = 2
    /\ pc[Loop] = "upd_sent"
    /\ net[Loop].state = "sent"
    /\ pc[Main] = "stopping"
    /\ stopCh

\* C35: when a pass of the loop begins with a cache that holds the hostnames
\* of an UpdateHosts call, their expression not being the one of the
\* configured hostnames, and the pass succeeds, then the pass has sent an
\* update with the expression of the configured hostnames, and it caches the
\* configured hostnames with that expression.
C35_OverrideReconciledAway ==
    [][(/\ Caches(Loop)
        /\ start[Loop].rule # NilRule
        /\ start[Loop].rule.Hostnames # config.DestHostnames
        /\ start[Loop].rule.Expression # BuildExpression(config.DestHostnames))
       => /\ \E i \in 1..Len(sent[Loop]) :
               sent[Loop][i] = UpdateRequest(rulesetID, currentRule'.ID,
                                             "expression" :>
                                                BuildExpression(config.DestHostnames))
          /\ currentRule'.Hostnames = config.DestHostnames
          /\ currentRule'.Expression = BuildExpression(config.DestHostnames)]_vars

\* a pass of the loop that began with the hostnames of an UpdateHosts call in
\* the cache has succeeded: cache and remote side are back at the configured
\* hostnames
C35_Witness ==
    /\ pc[Loop] = "pass_ok"
    /\ start[Loop].rule # NilRule
    /\ start[Loop].rule.Hostnames = ParseHostnames(SprintfV(<<HostB>>))
    /\ start[Loop].rule.Expression = BuildExpression(start[Loop].rule.Hostnames)
    /\ ~start[Loop].dirty
    /\ Len(sent[Loop]) = 2
    /\ currentRule.Hostnames = config.DestHostnames
    /\ RemoteRule.Expression = BuildExpression(config.DestHostnames)

\* C36: while every pass and call succeeds, no step lowers the version of
\* the cached rule (the remote side never lowers the version of a rule).
\* Violated: a pass caches the rule as it read it, over the result of a call
\* that updated the rule after the pass had read it.
C36_VersionNeverDecreases ==
    [][(/\ ~failed'
        /\ currentRule # NilRule
        /\ currentRule' # NilRule)
       => currentRule'.Version >= currentRule.Version]_vars

\* C37: the container id and the rule id that a ToggleRule or UpdateHosts
\* call addresses were seen together in one remote read: when a running pass
\* has put the id of the container it read in the place of the one cached
\* before, and has not cached its rule yet, the rule that a call addresses is
\* a rule of the container the pass read.
\* Violated: reconcileOnce stores the container id before ensureRule runs, and
\* a call then pairs it with the rule cached by an earlier pass.
C37_PairObservedTogether ==
    \A c \in Callers, p \in Passers :
        (/\ net[c].state = "sent"
         /\ pc[p] \in {"add_sent", "upd_sent", "commit"}
         /\ start[p].rulesetID # loc[p].ruleset.ID)
        => /\ net[c].req.rulesetID = loc[p].ruleset.ID
           /\ \E i \in 1..Len(loc[p].ruleset.Rules) :
                loc[p].ruleset.Rules[i].ID = net[c].req.ruleID

\* C38: an AddRule request is sent only by a pass whose read of the ruleset
\* held no rule with the marker description, never by ToggleRule or
\* UpdateHosts, and the ruleset of the remote side, which nobody else
\* changes, never holds two rules with the marker description.
C38_OneMarkerRule ==
    /\ \A c \in Callers : net[c].req.op # "AddRule"
    /\ \A p \in Passers :
         net[p].req.op = "AddRule" =>
            /\ pc[p] = "add_sent"
            /\ \A i \in 1..Len(loc[p].ruleset.Rules) :
                 loc[p].ruleset.Rules[i].Description # "cf-switch:global"
    /\ Cardinality({ i \in 1..Len(remote.Rules) :
                       remote.Rules[i].Description = "cf-switch:global" }) <= 1

\* the rule that the pass of Start added is the one marker rule of the
\* ruleset after two more passes and a call
C38_Witness ==
    /\ ticks = 2
    /\ calls = 1
    /\ pc[Loop] = "pass_ok"
    /\ Len(remote.Rules) = 2
    /\ remote.Rules[1].Description = "other"
    /\ remote.Rules[2].Description = RuleDescription
    /\ remote.Rules[2].ID = RuleIDs[2]
    /\ currentRule.ID = RuleIDs[2]
    /\ currentRule.Version < 7

\* C39: Stop returns only when the loop, spawned by a Start that succeeded,
\* has exited; a Stop called before Start or after a Start that failed never
\* returns; a Stop called after Stop has returned panics.
C39_StopNeedsLoop ==
    [][/\ (pc[Main] = "stopping" /\ pc'[Main] # "stopping")
          => /\ pc'[Main] = "stopped"
             /\ pc[Loop] = "exited"
       /\ (pc[Main] = "stopping" /\ pc[Loop] = "unspawned")
          => (pc'[Main] = "stopping" /\ pc'[Loop] = "unspawned")
       /\ (pc[Main] = "stopped" /\ pc'[Main] # "stopped")
          => pc'[Main] = "panic"
       /\ pc[Main] = "panic" => pc' = pc]_vars

\* Stop was called after Start had failed: it has closed stopCh and waits
C39_Witness ==
    /\ failed
    /\ pc[Main] = "stopping"
    /\ pc[Loop] = "unspawned"
    /\ currentRule = NilRule
    /\ stopCh
    /\ ~stoppedCh
    /\ ~ENABLED StopReturn

\* C40: the calls of the API arrive only after Start has returned nil: each
\* finds a cached rule and a stored ruleset id, none returns the error of an
\* uninitialized cache, and a process whose Start has failed serves none.
C40_ServedAfterStart ==
    /\ ret.op # "none" => ret.err \notin {"rule not initialized", "no rule available"}
    /\ (\E c \in Callers : pc[c] # "idle") => (Serving /\ ~NotInitialized)
    /\ calls > 0 => ~NotInitialized
    /\ pc[Main] \in {"start_failed", "exited"}
          => (calls = 0 /\ ret.op = "none" /\ \A c \in Callers : pc[c] = "idle")

\* a call of ToggleRule served after Start has returned its rule
C40_Witness ==
    /\ Serving
    /\ ret.op = "ToggleRule"
    /\ ret.err = ""
    /\ ret.rule # NilRule
    /\ calls > 0

====
